---- MODULE Spec2Model ----
(***************************************************************************)
(* The PDF colour-space engine of src/examples/jotform/pdf-jotform-image.js *)
(* (ColorSpace and its subclasses, resizeRgbImage) as a state machine.      *)
(*                                                                         *)
(* Numbers.  A JavaScript Number that holds a real value x is represented   *)
(* by the integer nearest to x * FP (fixed point); NaN (and undefined read  *)
(* as a number) is the value NaN.  Sample values, byte values, offsets and  *)
(* counts are plain integers.  Typed arrays are functions with domain       *)
(* 0 .. length-1.                                                           *)
(***************************************************************************)
EXTENDS Integers, Sequences, FiniteSets, TLC

VARIABLES
    heap,        \* the colour-space objects constructed so far, by object id
    singletons,  \* the memoised ColorSpace.singletons object
    scratch,     \* CalRGBCSClosure's tempNormalizeMatrix / tempConvertMatrix1 / 2
    dest,        \* the caller's destination buffer of the last call
    op,          \* the last call: its name and arguments
    ret,         \* what the last call returned (or the error it threw)
    pc           \* "idle" before a one-shot call, "done" after it; step count in Spec

vars == <<heap, singletons, scratch, dest, op, ret, pc>>

-----------------------------------------------------------------------------
(* Numbers *)

FP == 1000
NaN == -1000000000
null == -1000000001

Max(a, b) == IF a >= b THEN a ELSE b
Min(a, b) == IF a <= b THEN a ELSE b

\* the integer nearest to n / d, for d > 0
RDiv(n, d) == (2 * n + d) \div (2 * d)

Add(a, b) == IF a = NaN \/ b = NaN THEN NaN ELSE a + b
Sub(a, b) == IF a = NaN \/ b = NaN THEN NaN ELSE a - b
Mul(a, b) == IF a = NaN \/ b = NaN THEN NaN ELSE RDiv(a * b, FP)
Div(a, b) ==
    IF a = NaN \/ b = NaN \/ b = 0 THEN NaN
    ELSE IF b > 0 THEN RDiv(a * FP, b) ELSE -RDiv(a * FP, -b)

\* an integer k as a Number
Num(k) == IF k = NaN THEN NaN ELSE k * FP

RECURSIVE Pow2(_)
Pow2(b) == IF b <= 0 THEN 1 ELSE 2 * Pow2(b - 1)

\* (1 << bits) - 1
MaxVal(bits) == Pow2(bits) - 1

RECURSIVE Gcd(_, _)
Gcd(a, b) == IF b = 0 THEN a ELSE Gcd(b, a % b)

\* x^k for a Number x >= 0 and an integer k >= 0, saturating at Huge
Huge == 2000000
\* r * x of PowInt, r being x^(k-1)
PowStep(r, x) ==
    IF r = 0 \/ x = 0 THEN 0
    ELSE IF r >= Huge \/ x > (2000000000 \div r) THEN Huge
    ELSE Min(Huge, RDiv(r * x, FP))

RECURSIVE PowInt(_, _)
PowInt(x, k) == IF k = 0 THEN FP ELSE PowStep(PowInt(x, k - 1), x)

\* Powers with a fractional exponent are compared in a decimal floating
\* point of four digits: <<m, e>> is m * 10^e with 1000 <= m < 10000, or 0.
RECURSIVE FNorm(_, _)
FNorm(m, e) ==
    IF m = 0 THEN <<0, 0>>
    ELSE IF m >= 10000 THEN FNorm(m \div 10, e + 1)
    ELSE IF m < 1000 THEN FNorm(m * 10, e - 1)
    ELSE <<m, e>>

\* a Number x >= 0 in floating point
FNum(x) == FNorm(x, -3)

FMul(a, b) == FNorm(a[1] * b[1], a[2] + b[2])

RECURSIVE FPow(_, _)
FPow(a, k) == IF k = 0 THEN <<1000, -3>> ELSE FMul(FPow(a, k - 1), a)

\* a <= b
FLe(a, b) == a[1] = 0 \/ (b[1] # 0 /\ (a[2] < b[2] \/ (a[2] = b[2] /\ a[1] <= b[1])))

\* the largest y in lo..hi with y^q <= t (lo^q <= t assumed)
RECURSIVE Root(_, _, _, _)
Root(lo, hi, q, t) ==
    IF lo >= hi THEN lo
    ELSE IF FLe(FPow(FNum((lo + hi + 1) \div 2), q), t)
    THEN Root((lo + hi + 1) \div 2, hi, q, t)
    ELSE Root(lo, ((lo + hi + 1) \div 2) - 1, q, t)

\* Math.pow(x, p/q) for integers p >= 0, q >= 1
PowRat(x, p, q) ==
    IF x = NaN THEN NaN
    ELSE IF p = 0 THEN FP
    ELSE IF x < 0 THEN (IF q = 1 THEN (IF p % 2 = 0 THEN PowInt(-x, p) ELSE -PowInt(-x, p))
                        ELSE NaN)
    ELSE IF q = 1 THEN PowInt(x, p)
    ELSE Root(0, Max(FP, x), q, FPow(FNum(x), p))

\* Math.pow(x, y) for a Number exponent y >= 0
MathPow(x, y) ==
    IF y = NaN THEN NaN
    ELSE PowRat(x, y \div Gcd(y, FP), FP \div Gcd(y, FP))

\* Math.sqrt(x)
MathSqrt(x) == IF x = NaN \/ x < 0 THEN NaN ELSE Root(0, Max(FP, x), 2, FNum(x))

-----------------------------------------------------------------------------
(* Typed arrays *)

\* new Uint8Array(n) / new Uint8ClampedArray(n) / new Float32Array(n)
NewArray(n) == [i \in 0 .. (n - 1) |-> 0]

Length(buf) == Cardinality(DOMAIN buf)

\* buf[i] read as a number: an index outside the array reads undefined
Rd(buf, i) == IF i \in DOMAIN buf THEN buf[i] ELSE NaN

\* the byte a Uint8ClampedArray stores for the Number v
ToUint8Clamp(v) ==
    IF v = NaN \/ v <= 0 THEN 0
    ELSE IF v >= 255 * FP THEN 255
    ELSE LET q == v \div FP
             r == v % FP
         IN IF 2 * r < FP THEN q
            ELSE IF 2 * r > FP THEN q + 1
            ELSE IF q % 2 = 0 THEN q ELSE q + 1

\* the byte a Uint8Array stores for the integer k
ToUint8(k) == IF k = NaN THEN 0 ELSE k % 256

\* buf[i] = b, an index outside the array is ignored
Wr(buf, i, b) == IF i \in DOMAIN buf THEN [buf EXCEPT ![i] = b] ELSE buf

\* dest[off] = r; dest[off + 1] = g; dest[off + 2] = b on a Uint8ClampedArray
Put3(buf, off, r, g, b) ==
    Wr(Wr(Wr(buf, off, ToUint8Clamp(r)), off + 1, ToUint8Clamp(g)), off + 2,
       ToUint8Clamp(b))

\* src[j] * scale with scale = 1 / ((1 << bits) - 1)
Scale1(s, bits) == IF s = NaN THEN NaN ELSE RDiv(s * FP, MaxVal(bits))

\* scale * src[j] with scale = 255 / ((1 << bits) - 1)
Scale255(s, bits) == IF s = NaN THEN NaN ELSE RDiv(255 * s * FP, MaxVal(bits))

-----------------------------------------------------------------------------
(* Memory threaded through a conversion: the destination buffer, the three  *)
(* scratch vectors of CalRGBCSClosure (n = tempNormalizeMatrix,             *)
(* c1 = tempConvertMatrix1, c2 = tempConvertMatrix2), and w, the ids of the  *)
(* CalRGB instances whose conversions have written the scratch vectors.     *)

Mem(d, s) == [dest |-> d, n |-> s.n, c1 |-> s.c1, c2 |-> s.c2, w |-> s.w]
ScratchOf(m) == [n |-> m.n, c1 |-> m.c1, c2 |-> m.c2, w |-> m.w]
WithDest(m, d) == [m EXCEPT !.dest = d]

\* k * x for an integer k and a Number x
MulInt(k, x) == IF x = NaN THEN NaN ELSE k * x

\* a byte or sample value stored by TypedArray.prototype.set into a clamped array
ClampInt(k) == IF k = NaN \/ k < 0 THEN 0 ELSE IF k > 255 THEN 255 ELSE k

-----------------------------------------------------------------------------
(* DeviceGrayCS *)

DeviceGrayCS_getRgbItem(src, srcOffset, m, destOffset) ==
    LET c == MulInt(255, Rd(src, srcOffset))
    IN WithDest(m, Put3(m.dest, destOffset, c, c, c))

RECURSIVE DeviceGrayCS_loop(_, _, _, _, _, _, _, _)
DeviceGrayCS_loop(src, j, q, i, count, d, bits, alpha01) ==
    IF i >= count THEN d
    ELSE LET c == Scale255(Rd(src, j), bits)
         IN DeviceGrayCS_loop(src, j + 1, q + 3 + alpha01, i + 1, count,
                              Put3(d, q, c, c, c), bits, alpha01)

DeviceGrayCS_getRgbBuffer(src, srcOffset, count, m, destOffset, bits, alpha01) ==
    WithDest(m, DeviceGrayCS_loop(src, srcOffset, destOffset, 0, count, m.dest,
                                  bits, alpha01))

-----------------------------------------------------------------------------
(* DeviceRgbCS *)

DeviceRgbCS_getRgbItem(src, srcOffset, m, destOffset) ==
    WithDest(m, Put3(m.dest, destOffset,
                     MulInt(255, Rd(src, srcOffset)),
                     MulInt(255, Rd(src, srcOffset + 1)),
                     MulInt(255, Rd(src, srcOffset + 2))))

\* dest.set(src.subarray(begin, end), destOffset); the destination has room
\* for the copied elements in every call the model makes
RECURSIVE TypedArraySet(_, _, _, _, _)
TypedArraySet(d, src, begin, end, destOffset) ==
    IF begin >= end \/ begin >= Length(src) THEN d
    ELSE TypedArraySet(Wr(d, destOffset, ClampInt(src[begin])), src, begin + 1, end,
                       destOffset + 1)

RECURSIVE DeviceRgbCS_loop(_, _, _, _, _, _, _, _)
DeviceRgbCS_loop(src, j, q, i, count, d, bits, alpha01) ==
    IF i >= count THEN d
    ELSE DeviceRgbCS_loop(src, j + 3, q + 3 + alpha01, i + 1, count,
                          Put3(d, q, Scale255(Rd(src, j), bits),
                               Scale255(Rd(src, j + 1), bits),
                               Scale255(Rd(src, j + 2), bits)),
                          bits, alpha01)

DeviceRgbCS_getRgbBuffer(src, srcOffset, count, m, destOffset, bits, alpha01) ==
    IF bits = 8 /\ alpha01 = 0
    THEN (IF srcOffset = NaN THEN m   \* subarray(NaN, NaN) is empty
          ELSE WithDest(m, TypedArraySet(m.dest, src, srcOffset, srcOffset + count * 3,
                                         IF destOffset = NaN THEN 0 ELSE destOffset)))
    ELSE WithDest(m, DeviceRgbCS_loop(src, srcOffset, destOffset, 0, count, m.dest,
                                      bits, alpha01))

-----------------------------------------------------------------------------
(* DeviceCmykCS.  The coefficients are the source's, times FP, rounded. *)

\* c * (a*c + b*m + d*y + e*k + f) with coefficients given times FP
CmykTerm(x, a, c, b, m, d, y, e, k, f) ==
    Mul(x, Mul(a, c) + Mul(b, m) + Mul(d, y) + Mul(e, k) + f)

DeviceCmykCS_convertToRgb(src, srcOffset, srcScaleBits, d, destOffset) ==
    LET sc(v) == IF srcScaleBits = 0 THEN v ELSE Scale1(v, srcScaleBits)
        c == sc(Rd(src, srcOffset))
        m == sc(Rd(src, srcOffset + 1))
        y == sc(Rd(src, srcOffset + 2))
        k == sc(Rd(src, srcOffset + 3))
        bad == c = NaN \/ m = NaN \/ y = NaN \/ k = NaN
        r == 255 * FP
             + CmykTerm(c, -4387, c, 54486, m, 18823, y, 212257, k, -285233)
             + CmykTerm(m, 0, c, 1715, m, -5610, y, -17874, k, -5497)
             + CmykTerm(y, 0, c, 0, m, -2522, y, -21249, k, 17512)
             + CmykTerm(k, 0, c, 0, m, 0, y, -21861, k, -189482)
        g == 255 * FP
             + CmykTerm(c, 8841, c, 60118, m, 6871, y, 31159, k, -79297)
             + CmykTerm(m, 0, c, -15310, m, 17575, y, 131353, k, -190945)
             + CmykTerm(y, 0, c, 0, m, 4444, y, 9863, k, -24867)
             + CmykTerm(k, 0, c, 0, m, 0, y, -20737, k, -187805)
        b == 255 * FP
             + CmykTerm(c, 884, c, 8079, m, 30900, y, -239, k, -14184)
             + CmykTerm(m, 0, c, 10496, m, 63024, y, 50607, k, -112239)
             + CmykTerm(y, 0, c, 0, m, 33, y, 115604, k, -193582)
             + CmykTerm(k, 0, c, 0, m, 0, y, -22338, k, -180126)
    IN IF bad THEN Put3(d, destOffset, NaN, NaN, NaN)
       ELSE Put3(d, destOffset, r, g, b)

\* srcScale 1 is passed as srcScaleBits 0
DeviceCmykCS_getRgbItem(src, srcOffset, m, destOffset) ==
    WithDest(m, DeviceCmykCS_convertToRgb(src, srcOffset, 0, m.dest, destOffset))

RECURSIVE DeviceCmykCS_loop(_, _, _, _, _, _, _, _)
DeviceCmykCS_loop(src, srcOffset, destOffset, i, count, d, bits, alpha01) ==
    IF i >= count THEN d
    ELSE DeviceCmykCS_loop(src, srcOffset + 4, destOffset + 3 + alpha01, i + 1, count,
                           DeviceCmykCS_convertToRgb(src, srcOffset, bits, d, destOffset),
                           bits, alpha01)

DeviceCmykCS_getRgbBuffer(src, srcOffset, count, m, destOffset, bits, alpha01) ==
    WithDest(m, DeviceCmykCS_loop(src, srcOffset, destOffset, 0, count, m.dest,
                                  bits, alpha01))

-----------------------------------------------------------------------------
(* CalGrayCS *)

\* scale 1 is passed as scaleBits 0
CalGrayCS_convertToRgb(cs, src, srcOffset, d, destOffset, scaleBits) ==
    LET s == Rd(src, srcOffset)
        A == IF scaleBits = 0 THEN s ELSE Scale1(s, scaleBits)
        AG == MathPow(A, cs.G)
        L == Mul(cs.YW, AG)
        t == Sub(Mul(295800, PowRat(L, 1, 3)), 40800)
        val == IF t = NaN THEN NaN ELSE Max(t, 0)
    IN Put3(d, destOffset, val, val, val)

CalGrayCS_getRgbItem(cs, src, srcOffset, m, destOffset) ==
    WithDest(m, CalGrayCS_convertToRgb(cs, src, srcOffset, m.dest, destOffset, 0))

RECURSIVE CalGrayCS_loop(_, _, _, _, _, _, _, _, _)
CalGrayCS_loop(cs, src, srcOffset, destOffset, i, count, d, bits, alpha01) ==
    IF i >= count THEN d
    ELSE CalGrayCS_loop(cs, src, srcOffset + 1, destOffset + 3 + alpha01, i + 1, count,
                        CalGrayCS_convertToRgb(cs, src, srcOffset, d, destOffset, bits),
                        bits, alpha01)

CalGrayCS_getRgbBuffer(cs, src, srcOffset, count, m, destOffset, bits, alpha01) ==
    WithDest(m, CalGrayCS_loop(cs, src, srcOffset, destOffset, 0, count, m.dest,
                               bits, alpha01))

-----------------------------------------------------------------------------
(* CalRGBCS.  Vectors and matrices are tuples, element i of the source at    *)
(* position i + 1.  The scratch vectors are named by the field of the memory *)
(* record that holds them, so that aliasing behaves as in the source.        *)

BRADFORD_SCALE_MATRIX == <<895, 266, -161, -750, 1714, 37, 39, -69, 1030>>
BRADFORD_SCALE_INVERSE_MATRIX == <<987, -147, 160, 432, 518, 49, -9, 40, 968>>
SRGB_D65_XYZ_TO_RGB_MATRIX == <<3240, -1537, -499, -969, 1876, 42, 56, -204, 1057>>
FLAT_WHITEPOINT_MATRIX == <<FP, FP, FP>>

\* Math.pow((8 + 16) / 116, 3) / 8.0
DECODE_L_CONSTANT == RDiv(PowInt(RDiv(24 * FP, 116), 3), 8)

\* the scratch vectors of the closure as first allocated
tempNormalizeMatrix == <<0, 0, 0>>
tempConvertMatrix1 == <<0, 0, 0>>
tempConvertMatrix2 == <<0, 0, 0>>

Dot3(a, k, b) == Add(Add(Mul(a[k], b[1]), Mul(a[k + 1], b[2])), Mul(a[k + 2], b[3]))

\* matrixProduct(a, b, result): b and result name scratch vectors of m
matrixProduct(a, m, b, result) ==
    LET m1 == [m EXCEPT ![result][1] = Dot3(a, 1, m[b])]
        m2 == [m1 EXCEPT ![result][2] = Dot3(a, 4, m1[b])]
    IN [m2 EXCEPT ![result][3] = Dot3(a, 7, m2[b])]

convertToFlat(sourceWhitePoint, m, LMS, result) ==
    LET m1 == [m EXCEPT ![result][1] = Div(m[LMS][1], sourceWhitePoint[1])]
        m2 == [m1 EXCEPT ![result][2] = Div(m1[LMS][2], sourceWhitePoint[2])]
    IN [m2 EXCEPT ![result][3] = Div(m2[LMS][3], sourceWhitePoint[3])]

convertToD65(sourceWhitePoint, m, LMS, result) ==
    LET D65X == 950
        D65Y == FP
        D65Z == 1089
        m1 == [m EXCEPT ![result][1] = Div(Mul(m[LMS][1], D65X), sourceWhitePoint[1])]
        m2 == [m1 EXCEPT ![result][2] = Div(Mul(m1[LMS][2], D65Y), sourceWhitePoint[2])]
    IN [m2 EXCEPT ![result][3] = Div(Mul(m2[LMS][3], D65Z), sourceWhitePoint[3])]

\* Math.max(min, Math.min(max, value))
adjustToRange(min, max, value) ==
    IF value = NaN THEN NaN ELSE Max(min, Min(max, value))

sRGBTransferFunction(color) ==
    IF color # NaN /\ color <= 3
    THEN adjustToRange(0, FP, Mul(12920, color))
    ELSE adjustToRange(0, FP, Sub(Mul(1055, PowRat(color, 5, 12)), 55))

RECURSIVE decodeL(_)
decodeL(L) ==
    IF L = NaN THEN NaN
    ELSE IF L < 0 THEN -decodeL(-L)
    ELSE IF L > 8 * FP THEN PowInt(RDiv((L + 16 * FP) * FP, 116 * FP), 3)
    ELSE Mul(L, DECODE_L_CONSTANT)

compensateBlackPoint(sourceBlackPoint, m, XYZ_Flat, result) ==
    IF sourceBlackPoint[1] = 0 /\ sourceBlackPoint[2] = 0 /\ sourceBlackPoint[3] = 0
    THEN LET m1 == [m EXCEPT ![result][1] = m[XYZ_Flat][1]]
             m2 == [m1 EXCEPT ![result][2] = m1[XYZ_Flat][2]]
         IN [m2 EXCEPT ![result][3] = m2[XYZ_Flat][3]]
    ELSE LET zeroDecodeL == decodeL(0)
             X_Scale == Div(FP - zeroDecodeL, Sub(FP, decodeL(sourceBlackPoint[1])))
             X_Offset == Sub(FP, X_Scale)
             Y_Scale == Div(FP - zeroDecodeL, Sub(FP, decodeL(sourceBlackPoint[2])))
             Y_Offset == Sub(FP, Y_Scale)
             Z_Scale == Div(FP - zeroDecodeL, Sub(FP, decodeL(sourceBlackPoint[3])))
             Z_Offset == Sub(FP, Z_Scale)
             m1 == [m EXCEPT ![result][1] = Add(Mul(m[XYZ_Flat][1], X_Scale), X_Offset)]
             m2 == [m1 EXCEPT ![result][2] = Add(Mul(m1[XYZ_Flat][2], Y_Scale), Y_Offset)]
         IN [m2 EXCEPT ![result][3] = Add(Mul(m2[XYZ_Flat][3], Z_Scale), Z_Offset)]

\* normalizeWhitePointToFlat, were it to return early for a flat white
\* point without copying XYZ_In to result
normalizeWhitePointToFlat_noCopy(sourceWhitePoint, m, XYZ_In, result) ==
    IF sourceWhitePoint[1] = FP /\ sourceWhitePoint[3] = FP
    THEN m
    ELSE matrixProduct(BRADFORD_SCALE_INVERSE_MATRIX,
                       convertToFlat(sourceWhitePoint,
                                     matrixProduct(BRADFORD_SCALE_MATRIX, m, XYZ_In, result),
                                     result, "n"),
                       "n", result)

normalizeWhitePointToFlat(sourceWhitePoint, m, XYZ_In, result) ==
    IF sourceWhitePoint[1] = FP /\ sourceWhitePoint[3] = FP
    THEN LET m1 == [m EXCEPT ![result][1] = m[XYZ_In][1]]
             m2 == [m1 EXCEPT ![result][2] = m1[XYZ_In][2]]
         IN [m2 EXCEPT ![result][3] = m2[XYZ_In][3]]
    ELSE LET m1 == matrixProduct(BRADFORD_SCALE_MATRIX, m, XYZ_In, result)
             m2 == convertToFlat(sourceWhitePoint, m1, result, "n")
         IN matrixProduct(BRADFORD_SCALE_INVERSE_MATRIX, m2, "n", result)

normalizeWhitePointToD65(sourceWhitePoint, m, XYZ_In, result) ==
    LET m1 == matrixProduct(BRADFORD_SCALE_MATRIX, m, XYZ_In, result)
        m2 == convertToD65(sourceWhitePoint, m1, result, "n")
    IN matrixProduct(BRADFORD_SCALE_INVERSE_MATRIX, m2, "n", result)

\* X, Y and Z of convertToRgb
CalRGBCS_XYZ(cs, AGR, BGG, CGB) ==
    <<Add(Add(Mul(cs.MXA, AGR), Mul(cs.MXB, BGG)), Mul(cs.MXC, CGB)),
      Add(Add(Mul(cs.MYA, AGR), Mul(cs.MYB, BGG)), Mul(cs.MYC, CGB)),
      Add(Add(Mul(cs.MZA, AGR), Mul(cs.MZB, BGG)), Mul(cs.MZC, CGB))>>

\* the three stores into dest at the end of convertToRgb; m.c1 is SRGB
CalRGBCS_store(m, destOffset) ==
    WithDest(m, Put3(m.dest, destOffset,
                     MulInt(255, sRGBTransferFunction(m.c1[1])),
                     MulInt(255, sRGBTransferFunction(m.c1[2])),
                     MulInt(255, sRGBTransferFunction(m.c1[3]))))

\* scale 1 is passed as scaleBits 0; id is the object id of cs.  XYZ is
\* tempConvertMatrix1, XYZ_Flat tempConvertMatrix2, XYZ_Black tempConvertMatrix1,
\* XYZ_D65 tempConvertMatrix2 and SRGB tempConvertMatrix1.
CalRGBCS_convertToRgb(id, cs, src, srcOffset, m, destOffset, scaleBits) ==
    LET sc(v) == IF scaleBits = 0 THEN v ELSE Scale1(v, scaleBits)
        A == adjustToRange(0, FP, sc(Rd(src, srcOffset)))
        B == adjustToRange(0, FP, sc(Rd(src, srcOffset + 1)))
        C == adjustToRange(0, FP, sc(Rd(src, srcOffset + 2)))
    IN CalRGBCS_store(
           matrixProduct(SRGB_D65_XYZ_TO_RGB_MATRIX,
               normalizeWhitePointToD65(FLAT_WHITEPOINT_MATRIX,
                   compensateBlackPoint(cs.blackPoint,
                       normalizeWhitePointToFlat(cs.whitePoint,
                           [m EXCEPT !.c1 = CalRGBCS_XYZ(cs, MathPow(A, cs.GR),
                                                         MathPow(B, cs.GG),
                                                         MathPow(C, cs.GB)),
                                     !.w = @ \cup {id}],
                           "c1", "c2"),
                       "c2", "c1"),
                   "c1", "c2"),
               "c2", "c1"),
           destOffset)
CalRGBCS_getRgbItem(id, cs, src, srcOffset, m, destOffset) ==
    CalRGBCS_convertToRgb(id, cs, src, srcOffset, m, destOffset, 0)

\* The loop of getRgbBuffer.  Length(m.dest) < 0 never holds: testing it makes
\* TLC carry out the writes of one pass before it starts the next.
RECURSIVE CalRGBCS_loop(_, _, _, _, _, _, _, _, _, _)
CalRGBCS_loop(id, cs, src, srcOffset, destOffset, i, count, m, bits, alpha01) ==
    IF i >= count \/ Length(m.dest) < 0 THEN m
    ELSE CalRGBCS_loop(id, cs, src, srcOffset + 3, destOffset + 3 + alpha01, i + 1, count,
                       CalRGBCS_convertToRgb(id, cs, src, srcOffset, m, destOffset, bits),
                       bits, alpha01)

CalRGBCS_getRgbBuffer(id, cs, src, srcOffset, count, m, destOffset, bits, alpha01) ==
    CalRGBCS_loop(id, cs, src, srcOffset, destOffset, 0, count, m, bits, alpha01)

-----------------------------------------------------------------------------
(* LabCS *)

fn_g(x) ==
    IF x = NaN THEN NaN
    ELSE IF x >= RDiv(6 * FP, 29)
    THEN (IF x >= 0 THEN PowInt(x, 3) ELSE -PowInt(-x, 3))
    ELSE Mul(RDiv(108 * FP, 841), x - RDiv(4 * FP, 29))

\* decode(value, high1, low2, high2): value and high1 are sample integers
decode(value, high1, low2, high2) ==
    IF value = NaN THEN NaN ELSE low2 + RDiv(value * (high2 - low2), high1)

\* maxVal false is passed as 0
LabCS_convertToRgb(cs, src, srcOffset, maxVal, d, destOffset) ==
    LET Ls0 == Rd(src, srcOffset)
        as0 == Rd(src, srcOffset + 1)
        bs0 == Rd(src, srcOffset + 2)
        Ls == IF maxVal # 0 THEN decode(Ls0, maxVal, 0, 100 * FP) ELSE Ls0
        as1 == IF maxVal # 0 THEN decode(as0, maxVal, cs.amin, cs.amax) ELSE as0
        bs1 == IF maxVal # 0 THEN decode(bs0, maxVal, cs.bmin, cs.bmax) ELSE bs0
        as == IF as1 = NaN THEN NaN
              ELSE IF as1 > cs.amax THEN cs.amax ELSE IF as1 < cs.amin THEN cs.amin ELSE as1
        bs == IF bs1 = NaN THEN NaN
              ELSE IF bs1 > cs.bmax THEN cs.bmax ELSE IF bs1 < cs.bmin THEN cs.bmin ELSE bs1
        bad == Ls = NaN \/ as = NaN \/ bs = NaN
        M == RDiv(Ls + 16 * FP, 116)
        L == M + RDiv(as, 500)
        N == M - RDiv(bs, 200)
        X == Mul(cs.XW, fn_g(L))
        Y == Mul(cs.YW, fn_g(M))
        Z == Mul(cs.ZW, fn_g(N))
        r == IF cs.ZW < FP THEN Mul(X, 3134) + Mul(Y, -1617) + Mul(Z, -491)
                           ELSE Mul(X, 3241) + Mul(Y, -1537) + Mul(Z, -499)
        g == IF cs.ZW < FP THEN Mul(X, -979) + Mul(Y, 1916) + Mul(Z, 33)
                           ELSE Mul(X, -969) + Mul(Y, 1876) + Mul(Z, 42)
        b == IF cs.ZW < FP THEN Mul(X, 72) + Mul(Y, -229) + Mul(Z, 1406)
                           ELSE Mul(X, 56) + Mul(Y, -204) + Mul(Z, 1057)
    IN IF bad THEN Put3(d, destOffset, NaN, NaN, NaN)
       ELSE Put3(d, destOffset, MulInt(255, MathSqrt(r)), MulInt(255, MathSqrt(g)),
                 MulInt(255, MathSqrt(b)))

LabCS_getRgbItem(cs, src, srcOffset, m, destOffset) ==
    WithDest(m, LabCS_convertToRgb(cs, src, srcOffset, 0, m.dest, destOffset))

RECURSIVE LabCS_loop(_, _, _, _, _, _, _, _, _)
LabCS_loop(cs, src, srcOffset, destOffset, i, count, d, maxVal, alpha01) ==
    IF i >= count THEN d
    ELSE LabCS_loop(cs, src, srcOffset + 3, destOffset + 3 + alpha01, i + 1, count,
                    LabCS_convertToRgb(cs, src, srcOffset, maxVal, d, destOffset),
                    maxVal, alpha01)

LabCS_getRgbBuffer(cs, src, srcOffset, count, m, destOffset, bits, alpha01) ==
    WithDest(m, LabCS_loop(cs, src, srcOffset, destOffset, 0, count, m.dest,
                           MaxVal(bits), alpha01))

-----------------------------------------------------------------------------
(* Objects.  heap[id] is a record; its name field is the name the           *)
(* constructor passed to super(), a base field is the object id of the base  *)
(* colour space, and shadowed is the set of properties that shadow() has     *)
(* redefined on the object.                                                  *)

\* null counts as 0 in arithmetic
NumOf(x) == IF x = null THEN 0 ELSE x

\* shadow(obj, prop, value): redefines prop on obj as a plain value and
\* returns the value; the object after the call
shadow(obj, prop) == [obj EXCEPT !.shadowed = @ \cup {prop}]

\* the method, were Indexed and Alternate to hand the question to their base
isPassthrough_ofBase(cs, bits) ==
    IF cs.name \in {"DeviceRGB", "Indexed", "Alternate"} THEN bits = 8 ELSE FALSE

\* ColorSpace.prototype.isPassthrough and DeviceRgbCS.prototype.isPassthrough
isPassthrough(cs, bits) == IF cs.name = "DeviceRGB" THEN bits = 8 ELSE FALSE

\* get usesZeroToOneRange(), the value it returns
usesZeroToOneRange(cs) == IF cs.name = "Lab" THEN FALSE ELSE TRUE

\* The tint function created by pdfFunctionFactory: an exponential
\* interpolation between C0 and C1 by the (clamped) sum of its nIn inputs.
RECURSIVE TintSum(_, _, _)
TintSum(src, srcOffset, k) ==
    IF k <= 0 THEN 0 ELSE Add(TintSum(src, srcOffset, k - 1), Rd(src, srcOffset + k - 1))

TintValue(fn, t, j) ==
    LET c0 == IF j \in DOMAIN fn.C0 THEN fn.C0[j] ELSE 0
        c1 == IF j \in DOMAIN fn.C1 THEN fn.C1[j] ELSE 0
    IN Add(c0, Mul(t, c1 - c0))

\* tintFn(src, srcOffset, dest, 0): the Float32Array dest after the call
tintFn(fn, src, srcOffset, out) ==
    LET t == adjustToRange(0, FP, TintSum(src, srcOffset, fn.nIn))
    IN [j \in DOMAIN out |-> TintValue(fn, t, j + 1)]

-----------------------------------------------------------------------------
(* getOutputLength.  A length is [n, d, e], the number n * 2^e / d with      *)
(* n >= 0; d = 0 is NaN or an infinity; Thrown is the result of a call that  *)
(* throws (unreachable()).  e is 0 or BigExp: lengths of BigExp are the      *)
(* lengths of images of n * 2^BigExp samples.                                *)

BigExp == 28
Rat(k) == [n |-> k, d |-> 1, e |-> 0]
Big(k) == [n |-> k, d |-> 1, e |-> BigExp]
Thrown == [n |-> 0, d |-> -1, e |-> 0]

\* x | 0: x truncated to an integer and wrapped into [-2^31, 2^31)
ToInt32(q) ==
    IF q.d <= 0 THEN 0
    ELSE IF q.e = 0 THEN q.n \div q.d
    ELSE LET units == (q.n \div q.d) % Pow2(32 - q.e)
             signed == IF units >= Pow2(31 - q.e) THEN units - Pow2(32 - q.e) ELSE units
         IN signed * Pow2(q.e) + ((q.n % q.d) * Pow2(q.e)) \div q.d

\* a length as an offset: an integer, or NaN
RatToOffset(q) ==
    IF q.d <= 0 \/ q.e # 0 THEN NaN ELSE IF q.n % q.d = 0 THEN q.n \div q.d ELSE NaN

RECURSIVE getOutputLength(_, _, _, _)
getOutputLength(h, id, inputLength, alpha01) ==
    LET cs == h[id]
        scaled(k) == [inputLength EXCEPT !.n = @ * k]
        over(q, k) == [q EXCEPT !.d = @ * k]
    IN CASE cs.name \in {"DeviceGray", "CalGray"} -> scaled(3 + alpha01)
         [] cs.name \in {"DeviceRGB", "CalRGB", "Lab"} ->
                Rat(ToInt32(over(scaled(3 + alpha01), 3)))
         [] cs.name = "DeviceCMYK" -> Rat(ToInt32(over(scaled(3 + alpha01), 4)))
         [] cs.name = "Indexed" ->
                getOutputLength(h, cs.base, scaled(NumOf(h[cs.base].numComps)), alpha01)
         [] cs.name = "Alternate" ->
                getOutputLength(h, cs.base,
                                over(scaled(NumOf(h[cs.base].numComps)), cs.numComps),
                                alpha01)
         [] OTHER -> Thrown

-----------------------------------------------------------------------------
(* IndexedCS and AlternateCS, and the dispatch of the virtual methods *)

RECURSIVE getRgbItem(_, _, _, _, _, _)
RECURSIVE getRgbBuffer(_, _, _, _, _, _, _, _, _)
RECURSIVE IndexedCS_loop(_, _, _, _, _, _, _, _, _, _)
RECURSIVE AlternateCS_loop(_, _, _, _, _, _, _, _, _, _)

IndexedCS_getRgbItem(h, id, src, srcOffset, m, destOffset) ==
    LET cs == h[id]
        numComps == NumOf(h[cs.base].numComps)
        v == MulInt(numComps, Rd(src, srcOffset))
        start == IF v = NaN \/ v % FP # 0 THEN NaN ELSE v \div FP
    IN getRgbBuffer(h, cs.base, cs.lookup, start, 1, m, destOffset, 8, 0)

IndexedCS_loop(h, id, src, srcOffset, destOffset, i, count, m, outputDelta, alpha01) ==
    IF i >= count \/ Length(m.dest) < 0 THEN m
    ELSE LET cs == h[id]
             lookupPos == MulInt(NumOf(h[cs.base].numComps), Rd(src, srcOffset))
         IN IndexedCS_loop(h, id, src, srcOffset + 1, Add(destOffset, outputDelta), i + 1,
                           count,
                           getRgbBuffer(h, cs.base, cs.lookup, lookupPos, 1, m, destOffset,
                                        8, alpha01),
                           outputDelta, alpha01)

IndexedCS_getRgbBuffer(h, id, src, srcOffset, count, m, destOffset, bits, alpha01) ==
    LET cs == h[id]
        numComps == NumOf(h[cs.base].numComps)
        outputDelta == RatToOffset(getOutputLength(h, cs.base, Rat(numComps), alpha01))
    IN IndexedCS_loop(h, id, src, srcOffset, destOffset, 0, count, m, outputDelta, alpha01)

AlternateCS_getRgbItem(h, id, src, srcOffset, m, destOffset) ==
    LET cs == h[id]
        tmpBuf == tintFn(cs.tintFn, src, srcOffset, cs.tmpBuf)
    IN getRgbItem(h, cs.base, tmpBuf, 0, m, destOffset)

\* one pass of the staging loop; m.dest is baseBuf
AlternateCS_loop(h, id, src, srcOffset, pos, i, count, m, bits, uz) ==
    IF i >= count \/ Length(m.dest) < 0 THEN m
    ELSE LET cs == h[id]
             baseNumComps == NumOf(h[cs.base].numComps)
             scaled == [j \in 0 .. (cs.numComps - 1) |-> Scale1(Rd(src, srcOffset + j), bits)]
             tinted == tintFn(cs.tintFn, scaled, 0, NewArray(baseNumComps))
             staged == [p \in DOMAIN m.dest |->
                          IF p >= pos /\ p < pos + baseNumComps
                          THEN ToUint8Clamp(MulInt(255, tinted[p - pos]))
                          ELSE m.dest[p]]
             m1 == IF uz THEN WithDest(m, staged)
                   ELSE getRgbItem(h, cs.base, tinted, 0, m, pos)
         IN AlternateCS_loop(h, id, src, srcOffset + cs.numComps, pos + baseNumComps,
                             i + 1, count, m1, bits, uz)

\* the last statement of AlternateCS.getRgbBuffer: staged is the memory after
\* the loop, staged.dest being baseBuf
AlternateCS_finish(h, id, count, m, destOffset, alpha01, passthrough, staged) ==
    IF passthrough THEN staged
    ELSE getRgbBuffer(h, h[id].base, staged.dest, 0, count, WithDest(staged, m.dest),
                      destOffset, 8, alpha01)

AlternateCS_getRgbBuffer(h, id, src, srcOffset, count, m, destOffset, bits, alpha01) ==
    LET cs == h[id]
        base == h[cs.base]
        baseNumComps == NumOf(base.numComps)
        uz == usesZeroToOneRange(base)
        passthrough == (isPassthrough(base, 8) \/ ~uz) /\ alpha01 = 0
        pos == IF passthrough THEN destOffset ELSE 0
        baseBuf == IF passthrough THEN m.dest ELSE NewArray(baseNumComps * count)
    IN AlternateCS_finish(h, id, count, m, destOffset, alpha01, passthrough,
                          AlternateCS_loop(h, id, src, srcOffset, pos, 0, count,
                                           WithDest(m, baseBuf), bits, uz))

getRgbItem(h, id, src, srcOffset, m, destOffset) ==
    LET cs == h[id]
    IN CASE cs.name = "DeviceGray" -> DeviceGrayCS_getRgbItem(src, srcOffset, m, destOffset)
         [] cs.name = "DeviceRGB" -> DeviceRgbCS_getRgbItem(src, srcOffset, m, destOffset)
         [] cs.name = "DeviceCMYK" -> DeviceCmykCS_getRgbItem(src, srcOffset, m, destOffset)
         [] cs.name = "CalGray" -> CalGrayCS_getRgbItem(cs, src, srcOffset, m, destOffset)
         [] cs.name = "CalRGB" -> CalRGBCS_getRgbItem(id, cs, src, srcOffset, m, destOffset)
         [] cs.name = "Lab" -> LabCS_getRgbItem(cs, src, srcOffset, m, destOffset)
         [] cs.name = "Indexed" -> IndexedCS_getRgbItem(h, id, src, srcOffset, m, destOffset)
         [] cs.name = "Alternate" ->
                AlternateCS_getRgbItem(h, id, src, srcOffset, m, destOffset)
         [] OTHER -> m

getRgbBuffer(h, id, src, srcOffset, count, m, destOffset, bits, alpha01) ==
    LET cs == h[id]
    IN CASE cs.name = "DeviceGray" ->
                DeviceGrayCS_getRgbBuffer(src, srcOffset, count, m, destOffset, bits, alpha01)
         [] cs.name = "DeviceRGB" ->
                DeviceRgbCS_getRgbBuffer(src, srcOffset, count, m, destOffset, bits, alpha01)
         [] cs.name = "DeviceCMYK" ->
                DeviceCmykCS_getRgbBuffer(src, srcOffset, count, m, destOffset, bits, alpha01)
         [] cs.name = "CalGray" ->
                CalGrayCS_getRgbBuffer(cs, src, srcOffset, count, m, destOffset, bits, alpha01)
         [] cs.name = "CalRGB" ->
                CalRGBCS_getRgbBuffer(id, cs, src, srcOffset, count, m, destOffset, bits,
                                      alpha01)
         [] cs.name = "Lab" ->
                LabCS_getRgbBuffer(cs, src, srcOffset, count, m, destOffset, bits, alpha01)
         [] cs.name = "Indexed" ->
                IndexedCS_getRgbBuffer(h, id, src, srcOffset, count, m, destOffset, bits,
                                       alpha01)
         [] cs.name = "Alternate" ->
                AlternateCS_getRgbBuffer(h, id, src, srcOffset, count, m, destOffset, bits,
                                         alpha01)
         [] OTHER -> m

-----------------------------------------------------------------------------
(* The effect of a conversion on the objects of the heap: AlternateCS's      *)
(* getRgbItem writes this.tmpBuf, and reading base.usesZeroToOneRange runs   *)
(* the getter, which shadows the property on the base object.                *)

\* IndexedCS.getRgbItem, were it to pass its lookup table as the destination
getRgbItem_heap_intoLookup(h, id, src, srcOffset) ==
    IF h[id].name = "Indexed"
    THEN [h EXCEPT ![id].lookup = [i \in DOMAIN @ |-> IF i < 3 THEN 0 ELSE @[i]]]
    ELSE h

RECURSIVE getRgbItem_heap(_, _, _, _)
RECURSIVE getRgbBuffer_heap(_, _, _, _)

getRgbItem_heap(h, id, src, srcOffset) ==
    LET cs == h[id]
    IN CASE cs.name = "Alternate" ->
                LET tmpBuf == tintFn(cs.tintFn, src, srcOffset, cs.tmpBuf)
                IN getRgbItem_heap([h EXCEPT ![id].tmpBuf = tmpBuf], cs.base, tmpBuf, 0)
         [] cs.name = "Indexed" -> getRgbBuffer_heap(h, cs.base, 1, 0)
         [] OTHER -> h

getRgbBuffer_heap(h, id, count, alpha01) ==
    LET cs == h[id]
    IN CASE cs.name = "Alternate" ->
                LET base == h[cs.base]
                    h1 == [h EXCEPT ![cs.base] = shadow(base, "usesZeroToOneRange")]
                    passthrough == (isPassthrough(base, 8) \/ ~usesZeroToOneRange(base))
                                   /\ alpha01 = 0
                IN IF passthrough THEN h1 ELSE getRgbBuffer_heap(h1, cs.base, count, alpha01)
         [] cs.name = "Indexed" ->
                IF count > 0 THEN getRgbBuffer_heap(h, cs.base, 1, alpha01) ELSE h
         [] OTHER -> h

-----------------------------------------------------------------------------
(* PDF objects, as the parser sees them.  A name is [t |-> "name", name],    *)
(* an array [t |-> "array", a], a dictionary [t |-> "dict", d], a stream     *)
(* [t |-> "stream", dict, bytes], a string [t |-> "string", chars], a number *)
(* [t |-> "num", v], a function object [t |-> "fn", nIn, C0, C1], a byte     *)
(* buffer [t |-> "bytes", bytes], an indirect reference [t |-> "ref", num].  *)
(* Entries that hold counts (N, Hival) are integers; entries that hold       *)
(* reals (WhitePoint, BlackPoint, Gamma, Matrix, Range) are Numbers.         *)

Undefined == [t |-> "undefined"]
NameObj(n) == [t |-> "name", name |-> n]
ArrayObj(a) == [t |-> "array", a |-> a]
DictObj(d) == [t |-> "dict", d |-> d]
NumObj(v) == [t |-> "num", v |-> v]
StringObj(c) == [t |-> "string", chars |-> c]
StreamObj(d, b) == [t |-> "stream", dict |-> d, bytes |-> b]
BytesObj(b) == [t |-> "bytes", bytes |-> b]
FnObj(nIn, C0, C1) == [t |-> "fn", nIn |-> nIn, C0 |-> C0, C1 |-> C1]
RefObj(k) == [t |-> "ref", num |-> k]

isName(x) == x.t = "name"
isDict(x) == x.t = "dict"
isStream(x) == x.t = "stream"
isString(x) == x.t = "string"
isArray(x) == x.t = "array"

\* the objects behind the indirect references of the document
XrefTable ==
    <<NameObj("DeviceRGB"),
      ArrayObj(<<NameObj("CalGray"),
                 DictObj([WhitePoint |-> ArrayObj(<<950, FP, 1089>>), Gamma |-> NumObj(2000)])>>)>>

\* xref.fetchIfRef(obj)
fetchIfRef(obj) ==
    IF obj.t = "ref"
    THEN (IF obj.num \in DOMAIN XrefTable THEN XrefTable[obj.num] ELSE Undefined)
    ELSE obj

\* arr[i] of a JavaScript array (i counted from 0)
El(arr, i) == IF (i + 1) \in DOMAIN arr THEN arr[i + 1] ELSE Undefined

\* Dict.get(key) and Dict.getArray(key): the resolved entry, or undefined
DictGet(dict, key) == IF key \in DOMAIN dict.d THEN fetchIfRef(dict.d[key]) ELSE Undefined

\* the truth value of a JavaScript value
Truthy(x) ==
    CASE x.t = "undefined" -> FALSE
      [] x.t = "num" -> x.v # 0 /\ x.v # NaN
      [] x.t = "string" -> Len(x.chars) > 0
      [] OTHER -> TRUE

\* element i of an array value, read as a number
NumEl(x, i) == IF x.t = "array" /\ (i + 1) \in DOMAIN x.a THEN x.a[i + 1] ELSE NaN

\* a < b and a > b on Numbers: false when either is NaN
Lt(a, b) == a # NaN /\ b # NaN /\ a < b
Gt(a, b) == a # NaN /\ b # NaN /\ a > b

-----------------------------------------------------------------------------
(* Results of the constructors and of the parser: the heap and the           *)
(* singletons after the call, the id of the object returned, the IR          *)
(* returned, and the error thrown ("" when none).                            *)

Res(h, sg) == [heap |-> h, sg |-> sg, id |-> 0, ir |-> <<>>, err |-> ""]
Fail(R, e) == [R EXCEPT !.err = e, !.id = 0, !.ir = <<>>]
Alloc(R, obj) == [R EXCEPT !.heap = Append(@, obj), !.id = Len(R.heap) + 1]
WithIR(R, ir) == [R EXCEPT !.ir = ir]

\* super(name, numComps)
ColorSpace_new(name, numComps) == [name |-> name, numComps |-> numComps, shadowed |-> {}]

DeviceGrayCS_new == ColorSpace_new("DeviceGray", 1)
DeviceRgbCS_new == ColorSpace_new("DeviceRGB", 3)
DeviceCmykCS_new == ColorSpace_new("DeviceCMYK", 4)

-----------------------------------------------------------------------------
(* ColorSpace.singletons.  sg.class is the ColorSpace class object, sg.obj   *)
(* the object that the singletons getter created (its gray, rgb and cmyk     *)
(* fields are object ids, 0 while the property is still a getter).           *)

NoSingletons ==
    [class |-> [shadowed |-> {}],
     obj |-> [shadowed |-> {}, gray |-> 0, rgb |-> 0, cmyk |-> 0]]

DeviceNew(kind) ==
    CASE kind = "gray" -> DeviceGrayCS_new
      [] kind = "rgb" -> DeviceRgbCS_new
      [] kind = "cmyk" -> DeviceCmykCS_new

\* the getter, were it not to replace itself by the instance it made
singletons_get_unmemoized(R, kind) ==
    LET A == Alloc(R, DeviceNew(kind))
    IN [A EXCEPT !.sg = [class |-> shadow(R.sg.class, "singletons"),
                         obj |-> [shadow(R.sg.obj, kind) EXCEPT ![kind] = A.id]]]

\* ColorSpace.singletons[kind]
singletons_get(R, kind) ==
    LET made == "singletons" \in R.sg.class.shadowed
        cls == IF made THEN R.sg.class ELSE shadow(R.sg.class, "singletons")
        obj == IF made THEN R.sg.obj ELSE NoSingletons.obj
    IN IF kind \in obj.shadowed
       THEN [R EXCEPT !.sg = [class |-> cls, obj |-> obj], !.id = obj[kind]]
       ELSE LET A == Alloc(R, DeviceNew(kind))
            IN [A EXCEPT !.sg = [class |-> cls,
                                 obj |-> [shadow(obj, kind) EXCEPT ![kind] = A.id]]]

-----------------------------------------------------------------------------
(* Constructors *)

CalGrayCS_new(R, whitePoint, blackPoint, gamma) ==
    IF ~Truthy(whitePoint) THEN Fail(R, "FormatError")
    ELSE LET bp == IF Truthy(blackPoint) THEN blackPoint ELSE ArrayObj(<<0, 0, 0>>)
             G0 == IF Truthy(gamma) THEN (IF gamma.t = "num" THEN gamma.v ELSE NaN) ELSE FP
             XW == NumEl(whitePoint, 0)
             YW == NumEl(whitePoint, 1)
             ZW == NumEl(whitePoint, 2)
             XB == NumEl(bp, 0)
             YB == NumEl(bp, 1)
             ZB == NumEl(bp, 2)
             badBlack == Lt(XB, 0) \/ Lt(YB, 0) \/ Lt(ZB, 0)
         IN IF Lt(XW, 0) \/ Lt(ZW, 0) \/ YW # FP THEN Fail(R, "FormatError")
            ELSE Alloc(R, ColorSpace_new("CalGray", 1) @@
                          [XW |-> XW, YW |-> YW, ZW |-> ZW,
                           XB |-> IF badBlack THEN 0 ELSE XB,
                           YB |-> IF badBlack THEN 0 ELSE YB,
                           ZB |-> IF badBlack THEN 0 ELSE ZB,
                           G |-> IF Lt(G0, FP) THEN FP ELSE G0])

CalRGBCS_new(R, whitePoint, blackPoint, gamma, matrix) ==
    IF ~Truthy(whitePoint) THEN Fail(R, "FormatError")
    ELSE LET bp == IF Truthy(blackPoint) THEN blackPoint ELSE ArrayObj(<<0, 0, 0>>)
             gm == IF Truthy(gamma) THEN gamma ELSE ArrayObj(<<FP, FP, FP>>)
             mx == IF Truthy(matrix) THEN matrix
                   ELSE ArrayObj(<<FP, 0, 0, 0, FP, 0, 0, 0, FP>>)
             XW == NumEl(whitePoint, 0)
             YW == NumEl(whitePoint, 1)
             ZW == NumEl(whitePoint, 2)
             XB == NumEl(bp, 0)
             YB == NumEl(bp, 1)
             ZB == NumEl(bp, 2)
             GR == NumEl(gm, 0)
             GG == NumEl(gm, 1)
             GB == NumEl(gm, 2)
             badGamma == Lt(GR, 0) \/ Lt(GG, 0) \/ Lt(GB, 0)
         IN IF Lt(XW, 0) \/ Lt(ZW, 0) \/ YW # FP THEN Fail(R, "FormatError")
            ELSE Alloc(R, ColorSpace_new("CalRGB", 3) @@
                          [whitePoint |-> <<XW, YW, ZW>>,
                           blackPoint |-> IF Lt(XB, 0) \/ Lt(YB, 0) \/ Lt(ZB, 0)
                                          THEN <<0, 0, 0>> ELSE <<XB, YB, ZB>>,
                           GR |-> IF badGamma THEN FP ELSE GR,
                           GG |-> IF badGamma THEN FP ELSE GG,
                           GB |-> IF badGamma THEN FP ELSE GB,
                           MXA |-> NumEl(mx, 0), MYA |-> NumEl(mx, 1), MZA |-> NumEl(mx, 2),
                           MXB |-> NumEl(mx, 3), MYB |-> NumEl(mx, 4), MZB |-> NumEl(mx, 5),
                           MXC |-> NumEl(mx, 6), MYC |-> NumEl(mx, 7), MZC |-> NumEl(mx, 8)])

\* the constructor, were it to keep a Range whose minimum exceeds its maximum
LabCS_new_keepRange(R, whitePoint, blackPoint, range) ==
    IF ~Truthy(whitePoint) THEN Fail(R, "FormatError")
    ELSE LET bp == IF Truthy(blackPoint) THEN blackPoint ELSE ArrayObj(<<0, 0, 0>>)
             rg == IF Truthy(range) THEN range
                   ELSE ArrayObj(<<-100 * FP, 100 * FP, -100 * FP, 100 * FP>>)
             XW == NumEl(whitePoint, 0)
             YW == NumEl(whitePoint, 1)
             ZW == NumEl(whitePoint, 2)
             XB == NumEl(bp, 0)
             YB == NumEl(bp, 1)
             ZB == NumEl(bp, 2)
             badBlack == Lt(XB, 0) \/ Lt(YB, 0) \/ Lt(ZB, 0)
         IN IF Lt(XW, 0) \/ Lt(ZW, 0) \/ YW # FP THEN Fail(R, "FormatError")
            ELSE Alloc(R, ColorSpace_new("Lab", 3) @@
                          [XW |-> XW, YW |-> YW, ZW |-> ZW,
                           amin |-> NumEl(rg, 0), amax |-> NumEl(rg, 1),
                           bmin |-> NumEl(rg, 2), bmax |-> NumEl(rg, 3),
                           XB |-> IF badBlack THEN 0 ELSE XB,
                           YB |-> IF badBlack THEN 0 ELSE YB,
                           ZB |-> IF badBlack THEN 0 ELSE ZB])

LabCS_new(R, whitePoint, blackPoint, range) ==
    IF ~Truthy(whitePoint) THEN Fail(R, "FormatError")
    ELSE LET bp == IF Truthy(blackPoint) THEN blackPoint ELSE ArrayObj(<<0, 0, 0>>)
             rg == IF Truthy(range) THEN range
                   ELSE ArrayObj(<<-100 * FP, 100 * FP, -100 * FP, 100 * FP>>)
             XW == NumEl(whitePoint, 0)
             YW == NumEl(whitePoint, 1)
             ZW == NumEl(whitePoint, 2)
             XB == NumEl(bp, 0)
             YB == NumEl(bp, 1)
             ZB == NumEl(bp, 2)
             badBlack == Lt(XB, 0) \/ Lt(YB, 0) \/ Lt(ZB, 0)
             badRange == Gt(NumEl(rg, 0), NumEl(rg, 1)) \/ Gt(NumEl(rg, 2), NumEl(rg, 3))
         IN IF Lt(XW, 0) \/ Lt(ZW, 0) \/ YW # FP THEN Fail(R, "FormatError")
            ELSE Alloc(R, ColorSpace_new("Lab", 3) @@
                          [XW |-> XW, YW |-> YW, ZW |-> ZW,
                           amin |-> IF badRange THEN -100 * FP ELSE NumEl(rg, 0),
                           amax |-> IF badRange THEN 100 * FP ELSE NumEl(rg, 1),
                           bmin |-> IF badRange THEN -100 * FP ELSE NumEl(rg, 2),
                           bmax |-> IF badRange THEN 100 * FP ELSE NumEl(rg, 3),
                           XB |-> IF badBlack THEN 0 ELSE XB,
                           YB |-> IF badBlack THEN 0 ELSE YB,
                           ZB |-> IF badBlack THEN 0 ELSE ZB])

\* the constructor, were it to pass the tag of the IR to super() as the name
PatternCS_new_tagAsName(R, baseCS) ==
    Alloc(R, ColorSpace_new("PatternCS", null) @@ [base |-> baseCS])

\* new PatternCS(baseCS): base is an object id, or 0 for null
PatternCS_new(R, baseCS) ==
    Alloc(R, ColorSpace_new("Pattern", null) @@ [base |-> baseCS])

\* new Uint8Array(length) filled from the first length bytes of a stream
\* (lookup.getBytes(length)) or from the char codes of a string
LookupFrom(seq, length) ==
    [i \in 0 .. (length - 1) |-> IF (i + 1) \in DOMAIN seq THEN ToUint8(seq[i + 1]) ELSE 0]

\* an already built Uint8Array, as the typed array it is
BytesOf(seq) == [i \in 0 .. (Len(seq) - 1) |-> seq[i + 1]]

IndexedCS_new(R, base, highVal, lookup) ==
    LET baseNumComps == NumOf(R.heap[base].numComps)
        length == MulInt(baseNumComps, highVal)
        obj(l) == ColorSpace_new("Indexed", 1) @@
                  [base |-> base, highVal |-> highVal, lookup |-> l]
    IN IF isStream(lookup)
       THEN (IF length # NaN /\ length < 0 THEN Fail(R, "RangeError")
             ELSE Alloc(R, obj(LookupFrom(lookup.bytes, IF length = NaN THEN 0 ELSE length))))
       ELSE IF isString(lookup)
       THEN (IF length # NaN /\ length < 0 THEN Fail(R, "RangeError")
             ELSE Alloc(R, obj(LookupFrom(lookup.chars, IF length = NaN THEN 0 ELSE length))))
       ELSE IF lookup.t = "bytes" THEN Alloc(R, obj(BytesOf(lookup.bytes)))
       ELSE Fail(R, "FormatError")

AlternateCS_new(R, numComps, base, fn) ==
    Alloc(R, ColorSpace_new("Alternate", numComps) @@
             [base |-> base, tintFn |-> fn,
              tmpBuf |-> NewArray(NumOf(R.heap[base].numComps))])

-----------------------------------------------------------------------------
(* The parser.  An IR is a tuple whose first element is the tag; the bare    *)
(* strings 'DeviceGrayCS', 'DeviceRgbCS', 'DeviceCmykCS' of the source are   *)
(* the one-element tuples, and a null IR is the empty tuple.                 *)

RECURSIVE fromIR(_, _)
fromIR(R, IR) ==
    LET name == IR[1]
    IN CASE name = "DeviceGrayCS" -> singletons_get(R, "gray")
         [] name = "DeviceRgbCS" -> singletons_get(R, "rgb")
         [] name = "DeviceCmykCS" -> singletons_get(R, "cmyk")
         [] name = "CalGrayCS" -> CalGrayCS_new(R, IR[2], IR[3], IR[4])
         [] name = "CalRGBCS" -> CalRGBCS_new(R, IR[2], IR[3], IR[4], IR[5])
         [] name = "PatternCS" ->
                IF Len(IR[2]) > 0
                THEN LET B == fromIR(R, IR[2])
                     IN IF B.err # "" THEN B ELSE PatternCS_new(B, B.id)
                ELSE PatternCS_new(R, 0)
         [] name = "IndexedCS" ->
                LET B == fromIR(R, IR[2])
                IN IF B.err # "" THEN B ELSE IndexedCS_new(B, B.id, IR[3], IR[4])
         [] name = "AlternateCS" ->
                LET B == fromIR(R, IR[3])
                IN IF B.err # "" THEN B ELSE AlternateCS_new(B, IR[2], B.id, IR[4])
         [] name = "LabCS" -> LabCS_new(R, IR[2], IR[3], IR[4])
         [] OTHER -> Fail(R, "FormatError")

\* this.fromIR(IR) applied to what parseToIR returned, unless that threw
fromIR_of(P) == IF P.err # "" THEN P ELSE fromIR(P, P.ir)

\* pdfFunctionFactory.create(fnObj)
PdfFunctionFactory_create(fnObj) == fnObj

RECURSIVE parseToIR(_, _, _)
RECURSIVE parseToIR_array(_, _, _)

\* the part of parseToIR after the isName(cs) branch
parseToIR_array(R, cs, res) ==
    IF ~isArray(cs) THEN Fail(R, "FormatError")
    ELSE IF El(cs.a, 0).t = "undefined" THEN Fail(R, "TypeError")
    ELSE
    LET first == fetchIfRef(El(cs.a, 0))
        mode == IF isName(first) THEN first.name ELSE "undefined"
        params == fetchIfRef(El(cs.a, 1))
    IN CASE mode \in {"DeviceGray", "G"} -> WithIR(R, <<"DeviceGrayCS">>)
         [] mode \in {"DeviceRGB", "RGB"} -> WithIR(R, <<"DeviceRgbCS">>)
         [] mode \in {"DeviceCMYK", "CMYK"} -> WithIR(R, <<"DeviceCmykCS">>)
         [] mode = "CalGray" ->
                IF ~isDict(params) THEN Fail(R, "TypeError")
                ELSE WithIR(R, <<"CalGrayCS", DictGet(params, "WhitePoint"),
                                 DictGet(params, "BlackPoint"), DictGet(params, "Gamma")>>)
         [] mode = "CalRGB" ->
                IF ~isDict(params) THEN Fail(R, "TypeError")
                ELSE WithIR(R, <<"CalRGBCS", DictGet(params, "WhitePoint"),
                                 DictGet(params, "BlackPoint"), DictGet(params, "Gamma"),
                                 DictGet(params, "Matrix")>>)
         [] mode = "ICCBased" ->
                IF ~isStream(params) THEN Fail(R, "TypeError")
                ELSE LET dict == params.dict
                         N == DictGet(dict, "N")
                         numComps == IF N.t = "num" THEN N.v ELSE NaN
                         alt == DictGet(dict, "Alternate")
                         P == parseToIR(R, alt, res)
                         A == fromIR_of(P)
                         after == IF Truthy(alt) THEN WithIR(A, <<>>) ELSE R
                     IN IF Truthy(alt) /\ A.err # "" THEN A
                        ELSE IF Truthy(alt) /\ A.heap[A.id].numComps = numComps
                        THEN WithIR(A, P.ir)
                        ELSE IF numComps = 1 THEN WithIR(after, <<"DeviceGrayCS">>)
                        ELSE IF numComps = 3 THEN WithIR(after, <<"DeviceRgbCS">>)
                        ELSE IF numComps = 4 THEN WithIR(after, <<"DeviceCmykCS">>)
                        ELSE Fail(after, "FormatError")
         [] mode = "Pattern" ->
                IF Truthy(El(cs.a, 1))
                THEN LET P == parseToIR(R, El(cs.a, 1), res)
                     IN IF P.err # "" THEN P ELSE WithIR(P, <<"PatternCS", P.ir>>)
                ELSE WithIR(R, <<"PatternCS", <<>>>>)
         [] mode \in {"Indexed", "I"} ->
                LET P == parseToIR(R, El(cs.a, 1), res)
                    hv == fetchIfRef(El(cs.a, 2))
                    hiVal == IF hv.t = "num" /\ hv.v # NaN THEN hv.v + 1 ELSE NaN
                    lk == fetchIfRef(El(cs.a, 3))
                    lookup == IF isStream(lk) THEN BytesObj(lk.bytes) ELSE lk
                IN IF P.err # "" THEN P
                   ELSE WithIR(P, <<"IndexedCS", P.ir, hiVal, lookup>>)
         [] mode \in {"Separation", "DeviceN"} ->
                LET name == fetchIfRef(El(cs.a, 1))
                    numComps == IF isArray(name) THEN Len(name.a) ELSE 1
                    P == parseToIR(R, El(cs.a, 2), res)
                    fn == PdfFunctionFactory_create(fetchIfRef(El(cs.a, 3)))
                IN IF P.err # "" THEN P
                   ELSE WithIR(P, <<"AlternateCS", numComps, P.ir, fn>>)
         [] mode = "Lab" ->
                IF ~isDict(params) THEN Fail(R, "TypeError")
                ELSE WithIR(R, <<"LabCS", DictGet(params, "WhitePoint"),
                                 DictGet(params, "BlackPoint"), DictGet(params, "Range")>>)
         [] OTHER -> Fail(R, "FormatError")

\* parseToIR, were it to choose the colour space of an ICCBased stream by N
\* alone
parseToIR_byNOnly(R, cs0, res) ==
    LET cs == fetchIfRef(cs0)
        icc == isArray(cs) /\ Len(cs.a) >= 2 /\ isName(cs.a[1]) /\ cs.a[1].name = "ICCBased"
               /\ isStream(cs.a[2])
        colorSpaces == IF isDict(res) THEN DictGet(res, "ColorSpace") ELSE Undefined
        resCS == IF isName(cs) /\ isDict(colorSpaces) THEN DictGet(colorSpaces, cs.name)
                 ELSE Undefined
    IN IF icc
       THEN parseToIR_array(R, ArrayObj(<<cs.a[1], StreamObj(DictObj([N |-> cs.a[2].dict.d.N]),
                                                            <<>>)>>), res)
       ELSE IF ~isName(cs) THEN parseToIR_array(R, cs, res)
       ELSE CASE cs.name \in {"DeviceGray", "G"} -> WithIR(R, <<"DeviceGrayCS">>)
              [] cs.name \in {"DeviceRGB", "RGB"} -> WithIR(R, <<"DeviceRgbCS">>)
              [] cs.name \in {"DeviceCMYK", "CMYK"} -> WithIR(R, <<"DeviceCmykCS">>)
              [] cs.name = "Pattern" -> WithIR(R, <<"PatternCS", <<>>>>)
              [] OTHER -> IF ~Truthy(resCS) THEN Fail(R, "FormatError")
                          ELSE IF isName(resCS) THEN parseToIR(R, resCS, res)
                          ELSE parseToIR_array(R, resCS, res)

parseToIR(R, cs0, res) ==
    LET cs == fetchIfRef(cs0)
    IN IF isName(cs)
       THEN CASE cs.name \in {"DeviceGray", "G"} -> WithIR(R, <<"DeviceGrayCS">>)
              [] cs.name \in {"DeviceRGB", "RGB"} -> WithIR(R, <<"DeviceRgbCS">>)
              [] cs.name \in {"DeviceCMYK", "CMYK"} -> WithIR(R, <<"DeviceCmykCS">>)
              [] cs.name = "Pattern" -> WithIR(R, <<"PatternCS", <<>>>>)
              [] OTHER ->
                   LET colorSpaces == IF isDict(res) THEN DictGet(res, "ColorSpace")
                                      ELSE Undefined
                       resCS == IF isDict(colorSpaces) THEN DictGet(colorSpaces, cs.name)
                                ELSE Undefined
                   IN IF Truthy(resCS)
                      THEN (IF isName(resCS) THEN parseToIR(R, resCS, res)
                            ELSE parseToIR_array(R, resCS, res))
                      ELSE Fail(R, "FormatError")
       ELSE parseToIR_array(R, cs, res)

\* ColorSpace.parse(cs, xref, res, pdfFunctionFactory)
parse(R, cs, res) == fromIR_of(parseToIR(R, cs, res))

-----------------------------------------------------------------------------
(* resizeRgbImage and ColorSpace.prototype.fillRgb *)

\* 2^k mod b
RECURSIVE Pow2Mod(_, _)
Pow2Mod(k, b) == IF k <= 0 THEN 1 % b ELSE (2 * Pow2Mod(k - 1, b)) % b

\* the exponent of the double nearest to a / b, for a, b > 0: the e with
\* 2^(e0 + e) <= a / b < 2^(e0 + e + 1)
RECURSIVE Exponent(_, _, _)
Exponent(a, b, e0) ==
    IF a >= 2 * b THEN Exponent(a, 2 * b, e0 + 1)
    ELSE IF a < b THEN Exponent(2 * a, b, e0 - 1)
    ELSE e0

\* Math.floor(i * (a / b)) for integers i, a >= 0 and b > 0, in IEEE 754
\* doubles.  a / b is rounded to 53 bits: t is what the rounding cut off, in
\* units of 2^(e - 52) / b.  Where i * a / b is no integer the rounding
\* cannot carry the product across one.  Where it is the integer m and a / b
\* was rounded down, the product lies i * t units below m, and is rounded to
\* the double below m when that is more than half the spacing of the doubles
\* there; its floor is then m - 1.
FloorRatio(i, a, b) ==
    LET m == (i * a) \div b
        e == Exponent(a, b, 0)
        t == ((a % b) * Pow2Mod(52 - e, b)) % b
        A == Exponent(m, 1, 0)
        half == IF m = Pow2(A) THEN 4 ELSE 2
    IN IF i = 0 \/ a = 0 \/ (i * a) % b # 0 \/ t = 0 \/ 2 * t >= b THEN m
       ELSE IF half * i * t > b * Pow2(A - e) THEN m - 1
       ELSE m

\* the two nested loops, p = i * w2 + j.  Length(d) < 0 never holds: testing it
\* makes TLC carry out the writes of one pass before it starts the next.
RECURSIVE resizeRgbImage_loop(_, _, _, _, _, _, _, _, _)
resizeRgbImage_loop(src, d, w1, h1, w2, h2, alpha01, p, newIndex) ==
    IF p >= h2 * w2 \/ Length(d) < 0 THEN d
    ELSE LET COMPONENTS == 3
             i == p \div w2
             j == p % w2
             xScaled == (FloorRatio(j, w1, w2) * COMPONENTS) % 65536
             py == FloorRatio(i, h1, h2) * (w1 * COMPONENTS)
             oldIndex == py + xScaled
             d1 == Wr(Wr(Wr(d, newIndex, ClampInt(Rd(src, oldIndex))),
                         newIndex + 1, ClampInt(Rd(src, oldIndex + 1))),
                      newIndex + 2, ClampInt(Rd(src, oldIndex + 2)))
         IN resizeRgbImage_loop(src, d1, w1, h1, w2, h2, alpha01, p + 1,
                                newIndex + 3 + alpha01)

resizeRgbImage(src, d, w1, h1, w2, h2, alpha01) ==
    resizeRgbImage_loop(src, d, w1, h1, w2, h2, IF alpha01 # 1 THEN 0 ELSE alpha01, 0, 0)

\* for (i < count) { key = comps[i] * 3; out[pos++] = colorMap[key] ...; pos += step }
RECURSIVE fillRgb_mapLoop(_, _, _, _, _, _, _)
fillRgb_mapLoop(out, comps, colorMap, i, count, pos, step) ==
    IF i >= count THEN out
    ELSE LET key == MulInt(3, Rd(comps, i))
             o1 == Wr(Wr(Wr(out, pos, ClampInt(Rd(colorMap, key))),
                         pos + 1, ClampInt(Rd(colorMap, key + 1))),
                      pos + 2, ClampInt(Rd(colorMap, key + 2)))
         IN fillRgb_mapLoop(o1, comps, colorMap, i + 1, count, pos + 3 + step, step)

\* for (i < ii) { dest[destPos++] = rgbBuf[rgbPos++] (3 times); destPos += alpha01 }
RECURSIVE fillRgb_copyLoop(_, _, _, _, _)
\* the loop, were it to make each pixel opaque
fillRgb_copyLoop_opaque(d, rgbBuf, i, ii, alpha01) ==
    IF i >= ii THEN d
    ELSE LET destPos == i * (3 + alpha01)
             rgbPos == i * 3
             d3 == Wr(Wr(Wr(d, destPos, ClampInt(Rd(rgbBuf, rgbPos))),
                         destPos + 1, ClampInt(Rd(rgbBuf, rgbPos + 1))),
                      destPos + 2, ClampInt(Rd(rgbBuf, rgbPos + 2)))
         IN fillRgb_copyLoop(IF alpha01 = 1 THEN Wr(d3, destPos + 3, 255) ELSE d3,
                             rgbBuf, i + 1, ii, alpha01)

fillRgb_copyLoop(d, rgbBuf, i, ii, alpha01) ==
    IF i >= ii THEN d
    ELSE LET destPos == i * (3 + alpha01)
             rgbPos == i * 3
         IN fillRgb_copyLoop(Wr(Wr(Wr(d, destPos, ClampInt(Rd(rgbBuf, rgbPos))),
                                   destPos + 1, ClampInt(Rd(rgbBuf, rgbPos + 1))),
                                destPos + 2, ClampInt(Rd(rgbBuf, rgbPos + 2))),
                             rgbBuf, i + 1, ii, alpha01)

\* the last statement, were it to copy whatever the sizes
fillRgb_finish_copy(mm, rgbBuf, originalWidth, originalHeight, width, height, actualHeight, alpha01) ==
    WithDest(mm, fillRgb_copyLoop(mm.dest, rgbBuf, 0, width * actualHeight, alpha01))

\* the last statement of fillRgb (if (rgbBuf) ...): mm.dest is dest
fillRgb_finish(mm, rgbBuf, originalWidth, originalHeight, width, height, actualHeight, alpha01) ==
    IF originalHeight # height \/ originalWidth # width
    THEN WithDest(mm, resizeRgbImage(rgbBuf, mm.dest, originalWidth, originalHeight, width,
                                     height, alpha01))
    ELSE WithDest(mm, fillRgb_copyLoop(mm.dest, rgbBuf, 0, width * actualHeight, alpha01))

\* the statements after the getRgbBuffer call of fillRgb: g is the memory
\* that call left (g.dest is colorMap, dest or rgbBuf), m.dest is dest
fillRgb_after(m, g, originalWidth, originalHeight, width, height, actualHeight, comps, alpha01, useMap) ==
    LET count == originalWidth * originalHeight
        needsResizing == originalHeight # height \/ originalWidth # width
    IN IF useMap /\ ~needsResizing
       THEN WithDest(g, fillRgb_mapLoop(m.dest, comps, g.dest, 0, count, 0, alpha01))
       ELSE IF useMap
       THEN fillRgb_finish(WithDest(g, m.dest),
                           fillRgb_mapLoop(NewArray(count * 3), comps, g.dest, 0, count, 0,
                                           0),
                           originalWidth, originalHeight, width, height, actualHeight,
                           alpha01)
       ELSE IF ~needsResizing THEN g
       ELSE fillRgb_finish(WithDest(g, m.dest), g.dest, originalWidth, originalHeight,
                           width, height, actualHeight, alpha01)

\* the memory after this.fillRgb(dest, ...), m.dest being dest.  Each of the
\* two branches that convert calls this.getRgbBuffer once: useMap is the
\* colour-map branch.
fillRgb(h, id, m, originalWidth, originalHeight, width, height, actualHeight, bpc, comps, alpha01) ==
    LET cs == h[id]
        count == originalWidth * originalHeight
        numComponentColors == Pow2(bpc)
        needsResizing == originalHeight # height \/ originalWidth # width
        useMap == cs.numComps = 1 /\ count > numComponentColors
                  /\ cs.name # "DeviceGray" /\ cs.name # "DeviceRGB"
        allColors == [i \in 0 .. (numComponentColors - 1) |-> i]
    IN IF isPassthrough(cs, bpc)
       THEN fillRgb_finish(m, comps, originalWidth, originalHeight, width, height,
                           actualHeight, alpha01)
       ELSE fillRgb_after(m,
                          getRgbBuffer(h, id,
                                       IF useMap THEN allColors ELSE comps,
                                       0,
                                       IF useMap THEN numComponentColors
                                       ELSE IF needsResizing THEN count
                                       ELSE width * actualHeight,
                                       WithDest(m, IF useMap
                                                   THEN NewArray(numComponentColors * 3)
                                                   ELSE IF needsResizing
                                                   THEN NewArray(count * 3)
                                                   ELSE m.dest),
                                       0, bpc,
                                       IF useMap \/ needsResizing THEN 0 ELSE alpha01),
                          originalWidth, originalHeight, width, height, actualHeight,
                          comps, alpha01, useMap)

\* the heap after this.fillRgb(...)
fillRgb_heap(h, id, originalWidth, originalHeight, width, height, actualHeight, bpc, alpha01) ==
    LET cs == h[id]
        count == originalWidth * originalHeight
        numComponentColors == Pow2(bpc)
        needsResizing == originalHeight # height \/ originalWidth # width
    IN IF isPassthrough(cs, bpc) THEN h
       ELSE IF cs.numComps = 1 /\ count > numComponentColors
               /\ cs.name # "DeviceGray" /\ cs.name # "DeviceRGB"
       THEN getRgbBuffer_heap(h, id, numComponentColors, 0)
       ELSE IF ~needsResizing
       THEN getRgbBuffer_heap(h, id, width * actualHeight, alpha01)
       ELSE getRgbBuffer_heap(h, id, count, 0)

-----------------------------------------------------------------------------
(* isDefaultDecode.  A decode map is an array object whose entries are       *)
(* integers, or a value that is no array.                                    *)

\* the loop, were it to return after the first pair
isDefaultDecode_loop_firstPair(decodeArr, i, ii) ==
    IF i >= ii THEN TRUE
    ELSE ~(El(decodeArr, i) # 0 \/ El(decodeArr, i + 1) # 1)

RECURSIVE isDefaultDecode_loop(_, _, _)
isDefaultDecode_loop(decodeArr, i, ii) ==
    IF i >= ii THEN TRUE
    ELSE IF El(decodeArr, i) # 0 \/ El(decodeArr, i + 1) # 1 THEN FALSE
    ELSE isDefaultDecode_loop(decodeArr, i + 2, ii)

\* the static method, were it to reject a decode map of the wrong length
ColorSpace_isDefaultDecode_strict(decodeArr, n) ==
    IF ~isArray(decodeArr) THEN TRUE
    ELSE IF n * 2 # Len(decodeArr.a) THEN FALSE
    ELSE isDefaultDecode_loop(decodeArr.a, 0, Len(decodeArr.a))

\* static ColorSpace.isDefaultDecode(decodeArr, n)
ColorSpace_isDefaultDecode(decodeArr, n) ==
    IF ~isArray(decodeArr) THEN TRUE
    ELSE IF n * 2 # Len(decodeArr.a) THEN TRUE
    ELSE isDefaultDecode_loop(decodeArr.a, 0, Len(decodeArr.a))

IndexedCS_isDefaultDecode(decodeMap, bpc) ==
    IF ~isArray(decodeMap) THEN TRUE
    ELSE IF Len(decodeMap.a) # 2 THEN TRUE
    ELSE IF bpc < 1 THEN TRUE
    ELSE decodeMap.a[1] = 0 /\ decodeMap.a[2] = Pow2(bpc) - 1

\* cs.isDefaultDecode(decodeMap, bpc) of an instance
isDefaultDecode(cs, decodeMap, bpc) ==
    CASE cs.name = "Lab" -> TRUE
      [] cs.name = "Indexed" -> IndexedCS_isDefaultDecode(decodeMap, bpc)
      [] OTHER -> ColorSpace_isDefaultDecode(decodeMap, NumOf(cs.numComps))

-----------------------------------------------------------------------------
(* ColorSpace.prototype.getRgb and the effect of the remaining methods on    *)
(* the objects.                                                              *)

\* getRgb(src, srcOffset): the memory after the call, m.dest being the
\* new Uint8ClampedArray(3) that is returned
getRgb(h, id, src, srcOffset, m) ==
    getRgbItem(h, id, src, srcOffset, WithDest(m, NewArray(3)), 0)

\* reading cs.usesZeroToOneRange: the getter shadows the property on cs
usesZeroToOneRange_heap(h, id) ==
    [h EXCEPT ![id] = shadow(h[id], "usesZeroToOneRange")]

-----------------------------------------------------------------------------
(* Bounds *)

MaxHeap == 2        \* colour-space objects constructed in a run of Spec
MaxCount == 2       \* pixels converted by one getRgbBuffer call
MaxPixels == 3      \* pixel count n passed to getOutputLength
MaxDecodeLen == 4   \* entries of a decode array
MaxDecodeVal == 2   \* largest entry of a decode array
MaxComps == 3       \* n passed to ColorSpace.isDefaultDecode
MaxDim == 2         \* width and height of an image passed to fillRgb
WideSrc == 30       \* width of the wide image passed to resizeRgbImage
WideDst == 22       \* width the wide image is resized to

-----------------------------------------------------------------------------
(* Descriptors: the PDF objects handed to the parser *)

WhiteD65 == ArrayObj(<<950, FP, 1089>>)
WhiteD50 == ArrayObj(<<964, FP, 825>>)
WhiteFlat == ArrayObj(<<FP, FP, FP>>)

CalGrayDesc ==
    ArrayObj(<<NameObj("CalGray"),
               DictObj([WhitePoint |-> WhiteD65, Gamma |-> NumObj(2 * FP)])>>)
\* a CalRGB space with a flat white point and no black point
CalRGBDescA ==
    ArrayObj(<<NameObj("CalRGB"), DictObj([WhitePoint |-> WhiteFlat])>>)
\* a CalRGB space with white point, black point, gamma and matrix
CalRGBDescB ==
    ArrayObj(<<NameObj("CalRGB"),
               DictObj([WhitePoint |-> WhiteD50,
                        BlackPoint |-> ArrayObj(<<50, 50, 50>>),
                        Gamma |-> ArrayObj(<<2 * FP, FP, FP>>),
                        Matrix |-> ArrayObj(<<800, 100, 0, 100, 800, 100, 0, 100, 700>>)])>>)
LabDesc ==
    ArrayObj(<<NameObj("Lab"),
               DictObj([WhitePoint |-> WhiteD50,
                        Range |-> ArrayObj(<<-100 * FP, 100 * FP, -100 * FP, 100 * FP>>)])>>)

\* tint functions into a base of 1, 3 and 4 components, and into Lab
Fn1 == FnObj(1, <<FP>>, <<200>>)
Fn3 == FnObj(1, <<0, 0, 0>>, <<FP, 500, 200>>)
Fn4 == FnObj(1, <<0, 0, 0, 0>>, <<FP, 500, 0, 200>>)
FnLab == FnObj(1, <<100 * FP, 0, 0>>, <<40 * FP, 50 * FP, -30 * FP>>)
Fn3of2 == FnObj(2, <<0, 0, 0>>, <<FP, 500, 200>>)

Separation(base, fn) == ArrayObj(<<NameObj("Separation"), NameObj("Spot"), base, fn>>)
DeviceN(names, base, fn) == ArrayObj(<<NameObj("DeviceN"), ArrayObj(names), base, fn>>)
Indexed(base, hival, lookup) ==
    ArrayObj(<<NameObj("Indexed"), base, NumObj(hival), lookup>>)

\* a lookup table of two RGB entries
Lookup6 == <<255, 0, 0, 10, 128, 250>>

\* lookup tables of two entries of one and of four components
Lookup2 == <<40, 255>>
Lookup8 == <<0, 0, 0, 0, 255, 128, 0, 10>>

Stream(bytes) == StreamObj(DictObj([Length |-> NumObj(Len(bytes))]), bytes)
ICCBased(N, alt) ==
    ArrayObj(<<NameObj("ICCBased"), StreamObj(DictObj([N |-> NumObj(N), Alternate |-> alt]), <<>>)>>)

\* the resource dictionary of the page
Resources ==
    DictObj([ColorSpace |-> DictObj([Cs1 |-> LabDesc, Cs2 |-> NameObj("DeviceCMYK"),
                                     Cs4 |-> NumObj(1),
                                     Cs5 |-> ArrayObj(<<NameObj("Foo"), NumObj(1)>>)])])

DeviceIRs == {<<"DeviceGrayCS">>, <<"DeviceRgbCS">>, <<"DeviceCmykCS">>}
Kinds == {"gray", "rgb", "cmyk"}

\* the descriptors a document of the lifecycle runs holds
LifeDescriptors ==
    <<NameObj("DeviceGray"), CalRGBDescA, CalRGBDescB,
      Separation(NameObj("DeviceRGB"), Fn3),
      Indexed(NameObj("DeviceRGB"), 1, Stream(Lookup6))>>

NameInputs ==
    <<NameObj("DeviceGray"), NameObj("G"), NameObj("DeviceRGB"), NameObj("RGB"),
      NameObj("DeviceCMYK"), NameObj("CMYK"), NameObj("Pattern"), NameObj("Cs1"),
      NameObj("Cs2"), NameObj("Cs3"), NameObj("Cs4"), NameObj("Cs5"), NumObj(3), RefObj(1), RefObj(2), RefObj(3), Undefined,
      ArrayObj(<<>>), ArrayObj(<<NameObj("DeviceGray")>>), ArrayObj(<<NameObj("RGB")>>),
      ArrayObj(<<NameObj("CMYK")>>), ArrayObj(<<NameObj("Pattern")>>),
      ArrayObj(<<NameObj("Pattern"), NameObj("DeviceRGB")>>),
      ArrayObj(<<NameObj("Pattern"), LabDesc>>), ArrayObj(<<NameObj("Foo")>>),
      ArrayObj(<<NumObj(1)>>), ArrayObj(<<NameObj("G")>>),
      ArrayObj(<<NameObj("DeviceRGB")>>), ArrayObj(<<NameObj("DeviceCMYK")>>),
      ArrayObj(<<NameObj("I"), NameObj("DeviceRGB"), NumObj(1), StringObj(Lookup6)>>)>>

\* CalGray, CalRGB and Lab descriptors with valid and invalid parameters
CalInputs ==
    <<CalGrayDesc, CalRGBDescA, CalRGBDescB, LabDesc,
      ArrayObj(<<NameObj("CalGray")>>),
      ArrayObj(<<NameObj("CalGray"), DictObj([Gamma |-> NumObj(FP)])>>),
      ArrayObj(<<NameObj("CalGray"),
                 DictObj([WhitePoint |-> ArrayObj(<<950, 900, 1089>>)])>>),
      ArrayObj(<<NameObj("CalGray"),
                 DictObj([WhitePoint |-> ArrayObj(<<-950, FP, 1089>>)])>>),
      ArrayObj(<<NameObj("CalGray"),
                 DictObj([WhitePoint |-> WhiteD65, BlackPoint |-> ArrayObj(<<-1, 0, 0>>),
                          Gamma |-> NumObj(500)])>>),
      ArrayObj(<<NameObj("CalRGB"), DictObj([Gamma |-> ArrayObj(<<FP, FP, FP>>)])>>),
      ArrayObj(<<NameObj("CalRGB"),
                 DictObj([WhitePoint |-> ArrayObj(<<950, FP, -1089>>)])>>),
      ArrayObj(<<NameObj("CalRGB"),
                 DictObj([WhitePoint |-> WhiteD65, BlackPoint |-> ArrayObj(<<0, -5, 0>>),
                          Gamma |-> ArrayObj(<<FP, -FP, FP>>)])>>),
      ArrayObj(<<NameObj("Lab"), DictObj([Range |-> ArrayObj(<<0, FP, 0, FP>>)])>>),
      ArrayObj(<<NameObj("Lab"),
                 DictObj([WhitePoint |-> ArrayObj(<<950, 2 * FP, 1089>>)])>>),
      ArrayObj(<<NameObj("Lab"),
                 DictObj([WhitePoint |-> WhiteD65, BlackPoint |-> ArrayObj(<<0, 0, -1>>),
                          Range |-> ArrayObj(<<50 * FP, -50 * FP, 0, FP>>)])>>),
      ArrayObj(<<NameObj("CalGray"), DictObj([WhitePoint |-> ArrayObj(<<950, FP>>)])>>),
      ArrayObj(<<NameObj("CalRGB"), DictObj([WhitePoint |-> ArrayObj(<<FP>>)])>>),
      ArrayObj(<<NameObj("Lab"), DictObj([WhitePoint |-> ArrayObj(<<>>)])>>),
      ArrayObj(<<NameObj("CalGray"),
                 DictObj([WhitePoint |-> WhiteD65, BlackPoint |-> ArrayObj(<<-1, 20, 30>>),
                          Gamma |-> NumObj(2 * FP)])>>),
      ArrayObj(<<NameObj("CalGray"),
                 DictObj([WhitePoint |-> WhiteD65, BlackPoint |-> ArrayObj(<<10, 20, 30>>),
                          Gamma |-> NumObj(500)])>>),
      ArrayObj(<<NameObj("CalGray"),
                 DictObj([WhitePoint |-> WhiteD50, Gamma |-> NumObj(-2 * FP)])>>),
      ArrayObj(<<NameObj("CalGray"), DictObj([WhitePoint |-> WhiteD50, Gamma |-> NumObj(0)])>>),
      ArrayObj(<<NameObj("CalRGB"),
                 DictObj([WhitePoint |-> WhiteD50, BlackPoint |-> ArrayObj(<<0, -5, 0>>),
                          Gamma |-> ArrayObj(<<2 * FP, FP, 500>>),
                          Matrix |-> ArrayObj(<<800, 100, 0, 100, 800, 100, 0, 100, 700>>)])>>),
      ArrayObj(<<NameObj("CalRGB"),
                 DictObj([WhitePoint |-> WhiteD50, BlackPoint |-> ArrayObj(<<50, 40, 30>>),
                          Gamma |-> ArrayObj(<<2 * FP, FP, -1>>),
                          Matrix |-> ArrayObj(<<800, 100, 0, 100, 800, 100, 0, 100, 700>>)])>>),
      ArrayObj(<<NameObj("Lab"),
                 DictObj([WhitePoint |-> WhiteD65, BlackPoint |-> ArrayObj(<<0, 0, -1>>),
                          Range |-> ArrayObj(<<-50 * FP, 50 * FP, -20 * FP, 20 * FP>>)])>>),
      ArrayObj(<<NameObj("Lab"),
                 DictObj([WhitePoint |-> WhiteD65, BlackPoint |-> ArrayObj(<<10, 20, 30>>),
                          Range |-> ArrayObj(<<50 * FP, -50 * FP, 0, FP>>)])>>),
      ArrayObj(<<NameObj("Lab"),
                 DictObj([WhitePoint |-> WhiteD65,
                          Range |-> ArrayObj(<<-50 * FP, 50 * FP, FP, 0>>)])>>)>>

BaseInputs == <<NameObj("DeviceGray"), NameObj("DeviceRGB"), NameObj("DeviceCMYK"), LabDesc>>
HivalInputs == <<-1, 0, 1, 255, 300>>
LookupInputs == <<Stream(<<255, 0, 0>>), Stream(Lookup6), StringObj(Lookup6), Undefined>>
ColorantInputs ==
    <<NameObj("Spot"), ArrayObj(<<>>), ArrayObj(<<NameObj("Spot")>>),
      ArrayObj(<<NameObj("Cyan"), NameObj("Spot")>>)>>
AlternateInputs ==
    <<Undefined, NameObj("DeviceRGB"), LabDesc, ArrayObj(<<NameObj("CalGray")>>),
      DeviceN(<<>>, NameObj("DeviceCMYK"), Fn4), NameObj("Pattern"), NameObj("DeviceGray"),
      ArrayObj(<<NameObj("CalRGB"), DictObj([Gamma |-> ArrayObj(<<FP, FP, FP>>)])>>),
      ArrayObj(<<NameObj("Foo")>>)>>
NInputs == <<0, 1, 3, 4>>

IndexedInputs ==
    [k \in 1 .. (Len(BaseInputs) * Len(HivalInputs) * Len(LookupInputs)) |->
        Indexed(BaseInputs[((k - 1) % Len(BaseInputs)) + 1],
                HivalInputs[(((k - 1) \div Len(BaseInputs)) % Len(HivalInputs)) + 1],
                LookupInputs[((k - 1) \div (Len(BaseInputs) * Len(HivalInputs))) + 1])]
SeparationInputs ==
    [k \in 1 .. (Len(BaseInputs) * Len(ColorantInputs)) |->
        ArrayObj(<<NameObj(IF k % 2 = 0 THEN "Separation" ELSE "DeviceN"),
                   ColorantInputs[((k - 1) \div Len(BaseInputs)) + 1],
                   BaseInputs[((k - 1) % Len(BaseInputs)) + 1], Fn4>>)]
ICCBasedInputs ==
    [k \in 1 .. (Len(NInputs) * Len(AlternateInputs)) |->
        ICCBased(NInputs[((k - 1) % Len(NInputs)) + 1],
                 AlternateInputs[((k - 1) \div Len(NInputs)) + 1])]

\* every descriptor handed to ColorSpace.parse in the parser runs
ParseInputs == NameInputs \o CalInputs \o IndexedInputs \o SeparationInputs \o ICCBasedInputs

\* the colour spaces of the conversion runs: every Device, Cal and Lab space,
\* an Alternate over each of them, and Indexed spaces over each kind of base
ConvDescriptors ==
    <<NameObj("DeviceGray"), NameObj("DeviceRGB"), NameObj("DeviceCMYK"), CalGrayDesc,
      CalRGBDescA, CalRGBDescB, LabDesc,
      Separation(NameObj("DeviceGray"), Fn1), Separation(NameObj("DeviceRGB"), Fn3),
      Separation(NameObj("DeviceCMYK"), Fn4), Separation(CalGrayDesc, Fn1),
      Separation(CalRGBDescB, Fn3), Separation(LabDesc, FnLab),
      DeviceN(<<NameObj("Cyan"), NameObj("Spot")>>, NameObj("DeviceRGB"), Fn3of2),
      DeviceN(<<>>, NameObj("DeviceRGB"), Fn3),
      Indexed(NameObj("DeviceRGB"), 1, Stream(Lookup6)),
      Indexed(LabDesc, 1, StringObj(Lookup6)),
      Indexed(NameObj("DeviceRGB"), 1, Stream(<<255, 0, 0>>)),
      Indexed(NameObj("DeviceGray"), 1, StringObj(Lookup2)),
      Indexed(NameObj("DeviceCMYK"), 1, StringObj(Lookup8)),
      Indexed(CalGrayDesc, 1, StringObj(Lookup2)),
      Indexed(CalRGBDescB, 1, StringObj(Lookup6)),
      Indexed(Separation(NameObj("DeviceCMYK"), Fn4), 1, StringObj(Lookup2)),
      Indexed(Indexed(NameObj("DeviceRGB"), 1, StringObj(Lookup6)), 1, StringObj(<<1, 0>>)),
      Indexed(DeviceN(<<>>, NameObj("DeviceRGB"), Fn3), 1, StringObj(<<>>))>>

\* the descriptors ds[i], ds[i + 1], ... parsed one after the other, up to the
\* first that throws
RECURSIVE ParseAll(_, _, _)
ParseAll(R, ds, i) ==
    IF i > Len(ds) \/ R.err # "" THEN R ELSE ParseAll(parse(R, ds[i], Resources), ds, i + 1)

-----------------------------------------------------------------------------
(* Inputs of the method calls *)

\* the one-shot runs (pc = "idle") explore the whole input ranges; the
\* lifecycle runs take one representative of each range per call
Wide == pc = "idle"
\* a set that is empty in the lifecycle runs
WideOnly == IF Wide THEN {0} ELSE {}

ZeroScratch ==
    [n |-> tempNormalizeMatrix, c1 |-> tempConvertMatrix1, c2 |-> tempConvertMatrix2,
     w |-> {}]
NoDest == NewArray(0)
\* what a call returned: the object (an id, 0 for none), the error it threw,
\* the IR, the boolean or the length
NoRet == [id |-> 0, err |-> "", ir |-> <<>>, bool |-> FALSE, len |-> Rat(0)]

\* a destination buffer as the caller hands it over: every byte holds 7
Fresh(n) == [i \in 0 .. (n - 1) |-> 7]

Convertible(h) == {id \in DOMAIN h : h[id].name # "Pattern"}

\* the largest sample value of an image in colour space h[id]
SampleCap(h, id, bits) ==
    IF h[id].name = "Indexed" THEN Min(MaxVal(bits), h[id].highVal - 1) ELSE MaxVal(bits)

\* component j of a pixel of kind k (0: lowest, 1: graded, 2: highest)
PixelKind(k, j, numComps, cap) ==
    CASE k = 0 -> 0
      [] k = 1 -> (cap * (j + 1)) \div (numComps + 1)
      [] OTHER -> cap

\* the image of count pixels whose pixel i has kind (i + p) % 3
Image(p, count, numComps, cap) ==
    [i \in 0 .. (count * numComps - 1) |->
        IF numComps = 0 THEN 0
        ELSE PixelKind(((i \div numComps) + p) % 3, i % numComps, numComps, cap)]

BufInputs(h, id, count, bits) ==
    {Image(p, count, NumOf(h[id].numComps), SampleCap(h, id, bits)) :
        p \in IF Wide THEN 0 .. 2 ELSE {1}}

\* colours for getRgbItem: components in [0, 1], the natural range of Lab,
\* or a palette index
ItemInputs(h, id) ==
    LET cs == h[id]
        n == NumOf(cs.numComps)
    IN CASE cs.name = "Indexed" -> {[i \in 0 .. 0 |-> k * FP] :
                                      k \in IF Wide THEN 0 .. (cs.highVal - 1) ELSE {1}}
         [] cs.name = "Lab" ->
                {[i \in 0 .. 2 |-> IF i = 0 THEN 50 * FP ELSE IF i = 1 THEN 20 * FP
                                   ELSE -30 * FP]}
                \cup {[i \in 0 .. 2 |-> IF i = 0 THEN 90 * FP ELSE 0] : v \in WideOnly}
         [] OTHER -> {[i \in 0 .. (n - 1) |-> (v * (i + 1)) \div n] :
                          v \in IF Wide THEN {400, FP} ELSE {400}}

BitsInputs == IF Wide THEN {1, 2, 8} ELSE {8}
CountInputs == IF Wide THEN 0 .. MaxCount ELSE {1}
DimInputs == IF Wide THEN 1 .. MaxDim ELSE {1}
AlphaInputs == IF Wide THEN {0, 1} ELSE {1}
\* pixels of dest beyond those of the call: only in the one-shot runs, and for
\* fillRgb only with an alpha byte
SlackInputs == IF Wide THEN {0, 1} ELSE {0}
FillSlackInputs(alpha01) == IF alpha01 = 1 THEN SlackInputs ELSE {0}

\* the dimensions w1, h1, w2, h2 of the resizeRgbImage calls
ResizeDims ==
    {<<w1, h1, w2, h2>> : w1 \in 1 .. MaxDim, h1 \in 1 .. MaxDim, w2 \in 1 .. MaxDim,
                          h2 \in 1 .. MaxDim}
    \cup {<<WideSrc, 1, WideDst, 1>>, <<1, WideSrc, 1, WideDst>>, <<WideDst, 1, WideSrc, 1>>}

\* an RGB image of n pixels whose bytes differ from one another
RgbImage(n) == [p \in 0 .. (3 * n - 1) |-> (p + 1) % 256]

DecodeMapInputs ==
    <<Undefined, ArrayObj(<<0, 1>>), ArrayObj(<<0, 255>>), ArrayObj(<<0, 1, 0, 1, 0, 1>>),
      ArrayObj(<<1, 0, 0, 1, 0, 1>>)>>

\* the decode arrays of the isDefaultDecode runs, and a value that is no array
RECURSIVE DecodeArrays(_)
DecodeArrays(len) ==
    IF len = 0 THEN {<<>>}
    ELSE {Append(a, v) : a \in DecodeArrays(len - 1), v \in 0 .. MaxDecodeVal}
DecodeInputs ==
    {Undefined} \cup {ArrayObj(a) : a \in UNION {DecodeArrays(len) : len \in 0 .. MaxDecodeLen}}

-----------------------------------------------------------------------------
(* The state machine *)

InitIdle ==
    /\ heap = <<>>
    /\ singletons = NoSingletons
    /\ scratch = ZeroScratch
    /\ dest = NoDest
    /\ op = [name |-> "none"]
    /\ ret = NoRet
    /\ pc = "idle"

\* the lifecycle runs start where the one-shot runs start, with no bound on
\* the number of calls
Init ==
    /\ heap = <<>>
    /\ singletons = NoSingletons
    /\ scratch = ZeroScratch
    /\ dest = NoDest
    /\ op = [name |-> "none"]
    /\ ret = NoRet
    /\ pc = "run"

\* the conversion runs start after the document's colour spaces were parsed
InitConvert ==
    LET R == ParseAll(Res(<<>>, NoSingletons), ConvDescriptors, 1)
    IN /\ heap = R.heap
       /\ singletons = R.sg
       /\ scratch = ZeroScratch
       /\ dest = NoDest
       /\ op = [name |-> "none"]
       /\ ret = NoRet
       /\ pc = "idle"

\* the state after a call
Call(h, sg, sc, d, o, r) ==
    /\ heap' = h
    /\ singletons' = sg
    /\ scratch' = sc
    /\ dest' = d
    /\ op' = o
    /\ ret' = r
    /\ pc' = IF pc = "idle" THEN "done" ELSE pc

Fits(h) == Wide \/ Len(h) <= MaxHeap

\* the state after a call that returned (or threw) R
Returned(R, o) ==
    /\ Fits(R.heap)
    /\ Call(R.heap, R.sg, scratch, NoDest, o,
            [NoRet EXCEPT !.id = R.id, !.err = R.err, !.ir = R.ir])

\* the state after a conversion that left the memory m and the heap h
Converted(m, h, o) == Call(h, singletons, ScratchOf(m), m.dest, o, NoRet)

\* the state after a query that returned the boolean v
Answered(h, o, v) == Call(h, singletons, scratch, NoDest, o, [NoRet EXCEPT !.bool = v])

\* the state after a query that returned the length q
Measured(h, o, q) == Call(h, singletons, scratch, NoDest, o, [NoRet EXCEPT !.len = q])

Descriptors == IF Wide THEN ParseInputs ELSE LifeDescriptors

Parse ==
    /\ pc # "done"
    /\ \E i \in DOMAIN Descriptors :
         Returned(parse(Res(heap, singletons), Descriptors[i], Resources),
                  [name |-> "parse", cs |-> Descriptors[i]])

\* ColorSpace.parseToIR(cs, xref, res, pdfFunctionFactory) called on its own: it
\* returns the IR and no instance
ParseToIR ==
    /\ pc = "idle"
    /\ \E i \in DOMAIN ParseInputs : \E res \in {Resources, Undefined} :
         Returned([parseToIR(Res(heap, singletons), ParseInputs[i], res) EXCEPT !.id = 0],
                  [name |-> "parseToIR", cs |-> ParseInputs[i], res |-> res])

SingletonsGet ==
    /\ pc # "done"
    /\ \E kind \in Kinds :
         Returned(singletons_get(Res(heap, singletons), kind),
                  [name |-> "singletons", kind |-> kind])

FromIR ==
    /\ pc # "done"
    /\ \E IR \in DeviceIRs :
         Returned(fromIR(Res(heap, singletons), IR), [name |-> "fromIR", IR |-> IR])

GetRgbItem ==
    /\ pc # "done"
    /\ \E id \in Convertible(heap) : \E src \in ItemInputs(heap, id) :
         Converted(getRgbItem(heap, id, src, 0, Mem(Fresh(3), scratch), 0),
                   getRgbItem_heap(heap, id, src, 0),
                   [name |-> "getRgbItem", id |-> id, src |-> src])

GetRgb ==
    /\ pc # "done"
    /\ \E id \in Convertible(heap) : \E src \in ItemInputs(heap, id) :
         Converted(getRgb(heap, id, src, 0, Mem(NoDest, scratch)),
                   getRgbItem_heap(heap, id, src, 0),
                   [name |-> "getRgb", id |-> id, src |-> src])

GetRgbBuffer ==
    /\ pc # "done"
    /\ \E id \in Convertible(heap) : \E count \in CountInputs : \E bits \in BitsInputs :
       \E alpha01 \in AlphaInputs : \E src \in BufInputs(heap, id, count, bits) :
       \E slack \in SlackInputs :
         Converted(getRgbBuffer(heap, id, src, 0, count,
                                Mem(Fresh((count + slack) * (3 + alpha01)), scratch), 0,
                                bits, alpha01),
                   getRgbBuffer_heap(heap, id, count, alpha01),
                   [name |-> "getRgbBuffer", id |-> id, src |-> src, count |-> count,
                    bits |-> bits, alpha01 |-> alpha01])

FillRgb ==
    /\ pc # "done"
    /\ \E id \in Convertible(heap) : \E ow \in DimInputs : \E oh \in DimInputs :
       \E w \in DimInputs : \E hh \in DimInputs : \E ah \in 1 .. hh :
       \E bpc \in BitsInputs : \E alpha01 \in AlphaInputs :
       \E comps \in BufInputs(heap, id, ow * oh, bpc) :
       \E slack \in FillSlackInputs(alpha01) :
         Converted(fillRgb(heap, id, Mem(Fresh((w * hh + slack) * (3 + alpha01)), scratch),
                           ow, oh, w, hh, ah, bpc, comps, alpha01),
                   fillRgb_heap(heap, id, ow, oh, w, hh, ah, bpc, alpha01),
                   [name |-> "fillRgb", id |-> id, originalWidth |-> ow,
                    originalHeight |-> oh, width |-> w, height |-> hh, actualHeight |-> ah,
                    bpc |-> bpc, comps |-> comps, alpha01 |-> alpha01])

\* resizeRgbImage(src, dest, w1, h1, w2, h2, alpha01), the function of the
\* module, on an RGB image of w1 * h1 pixels
ResizeRgbImage ==
    /\ pc = "idle"
    /\ \E dm \in ResizeDims : \E alpha01 \in {0, 1} : \E slack \in SlackInputs :
         Call(heap, singletons, scratch,
              resizeRgbImage(RgbImage(dm[1] * dm[2]),
                             Fresh((dm[3] * dm[4] + slack) * (3 + alpha01)),
                             dm[1], dm[2], dm[3], dm[4], alpha01),
              [name |-> "resizeRgbImage", src |-> RgbImage(dm[1] * dm[2]), w1 |-> dm[1],
               h1 |-> dm[2], w2 |-> dm[3], h2 |-> dm[4], alpha01 |-> alpha01],
              NoRet)

GetOutputLength ==
    /\ pc # "done"
    /\ \E id \in Convertible(heap) :
       \E n \in (IF Wide THEN 0 .. MaxPixels ELSE {MaxPixels}) : \E alpha01 \in AlphaInputs :
       \E e \in (IF Wide THEN {0, BigExp} ELSE {0}) :
         Measured(heap,
                  [name |-> "getOutputLength", id |-> id, n |-> n, e |-> e,
                   alpha01 |-> alpha01],
                  getOutputLength(heap, id,
                                  [n |-> n * NumOf(heap[id].numComps), d |-> 1, e |-> e],
                                  alpha01))

IsPassthrough ==
    /\ pc # "done"
    /\ \E id \in Convertible(heap) : \E bits \in BitsInputs :
         Answered(heap, [name |-> "isPassthrough", id |-> id, bits |-> bits],
                  isPassthrough(heap[id], bits))

UsesZeroToOneRange ==
    /\ pc # "done"
    /\ \E id \in Convertible(heap) :
         Answered(usesZeroToOneRange_heap(heap, id),
                  [name |-> "usesZeroToOneRange", id |-> id], usesZeroToOneRange(heap[id]))

IsDefaultDecode ==
    /\ pc # "done"
    /\ \E id \in Convertible(heap) : \E i \in {2, 3} : \E bpc \in BitsInputs :
         Answered(heap,
                  [name |-> "isDefaultDecode", id |-> id, decodeMap |-> DecodeMapInputs[i],
                   bpc |-> bpc],
                  isDefaultDecode(heap[id], DecodeMapInputs[i], bpc))

\* the static ColorSpace.isDefaultDecode(decode, n)
StaticIsDefaultDecode ==
    /\ pc # "done"
    /\ \E decodeArr \in DecodeInputs : \E n \in 0 .. MaxComps :
         Answered(heap, [name |-> "ColorSpace.isDefaultDecode", decode |-> decodeArr, n |-> n],
                  ColorSpace_isDefaultDecode(decodeArr, n))

Next ==
    \/ Parse
    \/ SingletonsGet
    \/ FromIR
    \/ GetRgbItem
    \/ GetRgb
    \/ GetRgbBuffer
    \/ FillRgb
    \/ GetOutputLength
    \/ IsPassthrough
    \/ UsesZeroToOneRange
    \/ IsDefaultDecode

NextParse == Parse \/ ParseToIR \/ FromIR \/ SingletonsGet
NextDecode == StaticIsDefaultDecode
NextConvert ==
    GetRgbBuffer \/ FillRgb \/ ResizeRgbImage \/ GetOutputLength \/ GetRgbItem \/ IsPassthrough

Spec == Init /\ [][Next]_vars
SpecParse == InitIdle /\ [][NextParse]_vars
SpecDecode == InitIdle /\ [][NextDecode]_vars
SpecConvert == InitConvert /\ [][NextConvert]_vars

-----------------------------------------------------------------------------
(* Properties of the conversions *)

\* the RGB triple of d at offset q
Triple(d, q) == <<Rd(d, q), Rd(d, q + 1), Rd(d, q + 2)>>

\* the tint of pixel k of src, of bits bits, in the Alternate space h[id]
TintOf(h, id, src, k, bits) ==
    tintFn(h[id].tintFn,
           [j \in 0 .. (NumOf(h[id].numComps) - 1) |->
               Scale1(Rd(src, k * NumOf(h[id].numComps) + j), bits)],
           0, NewArray(NumOf(h[h[id].base].numComps)))

\* the 8-bit samples of a colour with components in [0, 1]
Samples8(c) == [j \in DOMAIN c |-> ToUint8Clamp(MulInt(255, c[j]))]

\* the colour c converted once by the space h[base]: the conversion of c
\* itself and, for a space of components in [0, 1], of the 8-bit samples of c
BaseOnce(h, base, c) ==
    {Triple(getRgbItem(h, base, c, 0, Mem(Fresh(3), ZeroScratch), 0).dest, 0)}
    \cup (IF usesZeroToOneRange(h[base])
          THEN {Triple(getRgbBuffer(h, base, Samples8(c), 0, 1, Mem(Fresh(3), ZeroScratch),
                                    0, 8, 0).dest, 0)}
          ELSE {})

\* C1: the RGB triple that AlternateCS.getRgbBuffer writes for pixel k is the
\* base conversion applied once to the tint of sample k, for every base, bits
\* and alpha01.
C1_ComposedOnce ==
    (op.name = "getRgbBuffer" /\ heap[op.id].name = "Alternate") =>
        \A k \in 0 .. (op.count - 1) :
            Triple(dest, k * (3 + op.alpha01)) \in
                BaseOnce(heap, heap[op.id].base, TintOf(heap, op.id, op.src, k, op.bits))

\* C2: with width = originalWidth and height = originalHeight, fillRgb leaves
\* dest with the bytes that getRgbBuffer(comps, 0, width * actualHeight, dest,
\* 0, bpc, alpha01) leaves, on every path.
C2_FillEqualsDirect ==
    (op.name = "fillRgb" /\ op.width = op.originalWidth /\ op.height = op.originalHeight) =>
        dest = getRgbBuffer(heap, op.id, op.comps, 0, op.width * op.actualHeight,
                            Mem(Fresh(Length(dest)), ZeroScratch),
                            0, op.bpc, op.alpha01).dest

\* the length q is the number k * 2^e
LengthIs(q, k, e) ==
    /\ q.d > 0
    /\ IF q.e = e THEN q.n = k * q.d
       ELSE q.e = 0 /\ k < Pow2(31 - e) /\ q.n = k * Pow2(e) * q.d

\* C3: getOutputLength(n * numComps, alpha01) is n * (3 + alpha01) for every
\* colour space but a Pattern, every pixel count n and both alpha01.
C3_OutputLength ==
    op.name = "getOutputLength" => LengthIs(ret.len, op.n * (3 + op.alpha01), op.e)

-----------------------------------------------------------------------------
(* Properties of ColorSpace.isDefaultDecode *)

\* the array [0, 1] repeated n times
DefaultDecode(n) == [i \in 1 .. (2 * n) |-> (i + 1) % 2]

\* C4 as the specification states it: true for [0, 1] repeated n times, false
\* for every other decode array.
C4_FalseOnAnyDeviation ==
    (op.name = "ColorSpace.isDefaultDecode" /\ isArray(op.decode)) =>
        (ret.bool <=> op.decode.a = DefaultDecode(op.n))

\* C4: ColorSpace.isDefaultDecode(decode, n) returns true for [0, 1] repeated
\* n times, and false for every other decode array of 2n entries.
C4_FalseOnDeviationOfRightLength ==
    (op.name = "ColorSpace.isDefaultDecode" /\ isArray(op.decode)
        /\ Len(op.decode.a) = 2 * op.n) =>
        (ret.bool <=> op.decode.a = DefaultDecode(op.n))

\* an array of 2n entries, n >= 2, that deviates in its last pair only was
\* found not to be the default
C4_Witness ==
    /\ op.name = "ColorSpace.isDefaultDecode"
    /\ isArray(op.decode)
    /\ op.n >= 2
    /\ Len(op.decode.a) = 2 * op.n
    /\ SubSeq(op.decode.a, 1, 2 * op.n - 2) = DefaultDecode(op.n - 1)
    /\ op.decode.a # DefaultDecode(op.n)
    /\ ret.bool = FALSE

\* C5: ColorSpace.isDefaultDecode(decode, n) returns true when decode is no
\* array, true when decode.length is not 2n, and otherwise true exactly when
\* every pair (decode[2i], decode[2i + 1]) is (0, 1).
C5_StaticIsDefaultDecode ==
    op.name = "ColorSpace.isDefaultDecode" =>
        ret.bool = (IF ~isArray(op.decode) THEN TRUE
                   ELSE IF Len(op.decode.a) # 2 * op.n THEN TRUE
                   ELSE \A i \in 0 .. (op.n - 1) :
                            op.decode.a[2 * i + 1] = 0 /\ op.decode.a[2 * i + 2] = 1)

\* a decode array whose length is not 2n, and that is not [0, 1, 0, 1, ...]
\* either, was treated as the default
C5_Witness ==
    /\ op.name = "ColorSpace.isDefaultDecode"
    /\ isArray(op.decode)
    /\ Len(op.decode.a) # 2 * op.n
    /\ \E i \in DOMAIN op.decode.a : op.decode.a[i] # (i + 1) % 2
    /\ ret.bool = TRUE

-----------------------------------------------------------------------------
(* Properties of the parser *)

\* cs is a Separation or DeviceN descriptor
IsColorantDescriptor(cs) ==
    /\ isArray(cs)
    /\ Len(cs.a) >= 2
    /\ isName(cs.a[1])
    /\ cs.a[1].name \in {"Separation", "DeviceN"}

\* the number of colorants a Separation or DeviceN descriptor names
Colorants(cs) == IF isArray(fetchIfRef(cs.a[2])) THEN Len(fetchIfRef(cs.a[2]).a) ELSE 1

\* ColorSpace.parse returned an instance
Parsed == op.name = "parse" /\ ret.err = "" /\ ret.id # 0

\* C6: every instance ColorSpace.parse returns, other than a Pattern, has
\* numComps >= 1, and an instance built from a Separation or DeviceN
\* descriptor has as many components as the descriptor names colorants.
C6_NumCompsPositive ==
    (Parsed /\ heap[ret.id].name # "Pattern") =>
        /\ heap[ret.id].numComps >= 1
        /\ IsColorantDescriptor(op.cs) => heap[ret.id].numComps = Colorants(op.cs)

\* C7: every Indexed instance ColorSpace.parse returns has highVal in
\* [1, 256] and a lookup buffer of exactly base.numComps * highVal bytes.
C7_IndexedLookup ==
    (Parsed /\ heap[ret.id].name = "Indexed") =>
        /\ heap[ret.id].highVal \in 1 .. 256
        /\ Length(heap[ret.id].lookup) =
               NumOf(heap[heap[ret.id].base].numComps) * heap[ret.id].highVal

-----------------------------------------------------------------------------
(* Properties of the objects over their lifetime *)

Methods ==
    {"getRgb", "getRgbItem", "getRgbBuffer", "getOutputLength", "isPassthrough",
     "usesZeroToOneRange", "isDefaultDecode", "fillRgb"}

\* what the constructor of obj was given: every field but the tint buffer of
\* an Alternate space and the record of the cached getters
Parameters(obj) == [f \in DOMAIN obj \ {"tmpBuf", "shadowed"} |-> obj[f]]

C9_ScratchPerInstance == Cardinality(scratch.w) <= 1

\* C9: the scratch vectors are shared by all CalRGB instances, each
\* conversion runs to its end before the next starts, and what a conversion
\* writes to dest does not depend on what the conversions before it left in
\* the scratch vectors.
C9_ScratchNeverReadStale ==
    /\ (op.name = "getRgbBuffer" /\ heap[op.id].name = "CalRGB") =>
           dest = getRgbBuffer(heap, op.id, op.src, 0, op.count,
                               Mem(Fresh(op.count * (3 + op.alpha01)), ZeroScratch), 0,
                               op.bits, op.alpha01).dest
    /\ (op.name = "getRgbItem" /\ heap[op.id].name = "CalRGB") =>
           dest = getRgbItem(heap, op.id, op.src, 0, Mem(Fresh(3), ZeroScratch), 0).dest

\* a CalRGB instance has converted a buffer after another instance wrote
\* the scratch vectors
C9_Witness ==
    /\ op.name = "getRgbBuffer"
    /\ heap[op.id].name = "CalRGB"
    /\ op.count >= 1
    /\ Cardinality(scratch.w) >= 2

DeviceName(kind) ==
    CASE kind = "gray" -> "DeviceGray"
      [] kind = "rgb" -> "DeviceRGB"
      [] kind = "cmyk" -> "DeviceCMYK"

KindOfIR(IR) ==
    CASE IR[1] = "DeviceGrayCS" -> "gray"
      [] IR[1] = "DeviceRgbCS" -> "rgb"
      [] IR[1] = "DeviceCmykCS" -> "cmyk"

\* C10: at most one DeviceGray, one DeviceRGB and one DeviceCMYK instance is
\* ever created, and every access to ColorSpace.singletons and every fromIR
\* call with a Device tag returns the instance of its kind.
C10_DeviceSingletons ==
    /\ \A kind \in Kinds :
          Cardinality({id \in DOMAIN heap : heap[id].name = DeviceName(kind)}) <= 1
    /\ op.name = "singletons" =>
          ret.id \in DOMAIN heap /\ heap[ret.id].name = DeviceName(op.kind)
    /\ op.name = "fromIR" =>
          ret.id \in DOMAIN heap /\ heap[ret.id].name = DeviceName(KindOfIR(op.IR))

\* fromIR returned a Device instance that was created before the newest
\* object
C10_Witness ==
    /\ op.name = "fromIR"
    /\ ret.id \in DOMAIN heap
    /\ ret.id < Len(heap)

-----------------------------------------------------------------------------
(* Properties of ICCBased descriptors *)

\* cs is an ICCBased descriptor with its stream
IsICCBased(cs) ==
    /\ isArray(cs)
    /\ Len(cs.a) >= 2
    /\ isName(cs.a[1])
    /\ cs.a[1].name = "ICCBased"
    /\ isStream(cs.a[2])

\* the N and the Alternate of the stream of an ICCBased descriptor
ICC_N(cs) == DictGet(cs.a[2].dict, "N").v
ICC_Alternate(cs) == DictGet(cs.a[2].dict, "Alternate")

\* the Alternate of cs parsed and constructed on its own
AlternateOf(cs) == parse(Res(<<>>, NoSingletons), ICC_Alternate(cs), Undefined)

\* the Alternate of cs can be parsed and constructed
Usable(cs) == Truthy(ICC_Alternate(cs)) /\ AlternateOf(cs).err = ""

\* the Alternate of cs is usable and has N components
Matching(cs) ==
    Usable(cs) /\ AlternateOf(cs).heap[AlternateOf(cs).id].numComps = ICC_N(cs)

DeviceIRFor(N) ==
    CASE N = 1 -> <<"DeviceGrayCS">>
      [] N = 3 -> <<"DeviceRgbCS">>
      [] N = 4 -> <<"DeviceCmykCS">>

\* C11: for an ICCBased descriptor whose Alternate is absent or usable,
\* parseToIR returns the IR of the Alternate when the Alternate has N
\* components; otherwise it returns the Device IR of N = 1, 3, 4 and throws a
\* FormatError for any other N.
C11_ICCBased ==
    (op.name = "parseToIR" /\ IsICCBased(op.cs)
        /\ (Truthy(ICC_Alternate(op.cs)) => Usable(op.cs))) =>
        IF Matching(op.cs)
        THEN /\ ret.err = ""
             /\ ret.ir = parseToIR(Res(<<>>, NoSingletons), ICC_Alternate(op.cs), op.res).ir
        ELSE IF ICC_N(op.cs) \in {1, 3, 4}
        THEN ret.err = "" /\ ret.ir = DeviceIRFor(ICC_N(op.cs))
        ELSE ret.err = "FormatError" /\ Len(ret.ir) = 0

\* an ICCBased descriptor with a usable Alternate of another component count
\* (a Pattern among them) was parsed to the Device IR of its N
C11_Witness ==
    /\ op.name = "parseToIR"
    /\ IsICCBased(op.cs)
    /\ Usable(op.cs)
    /\ ~Matching(op.cs)
    /\ AlternateOf(op.cs).heap[AlternateOf(op.cs).id].name = "Pattern"
    /\ ICC_N(op.cs) = 4
    /\ ret.ir = <<"DeviceCmykCS">>

-----------------------------------------------------------------------------
(* The parser round trip *)

\* the name, or the first element, of a descriptor
ModeOf(cs) ==
    IF isName(cs) THEN cs.name
    ELSE IF isArray(cs) /\ Len(cs.a) >= 1 /\ isName(cs.a[1]) THEN cs.a[1].name
    ELSE ""

\* the name table of the descriptor forms
ExpectedName ==
    [DeviceGray |-> "DeviceGray", G |-> "DeviceGray", DeviceRGB |-> "DeviceRGB",
     RGB |-> "DeviceRGB", DeviceCMYK |-> "DeviceCMYK", CMYK |-> "DeviceCMYK",
     CalGray |-> "CalGray", CalRGB |-> "CalRGB", Lab |-> "Lab", Pattern |-> "Pattern",
     Indexed |-> "Indexed", I |-> "Indexed", Separation |-> "Alternate",
     DeviceN |-> "Alternate"]

\* the forms that have no parameter to be wrong
Parameterless(cs) ==
    \/ ModeOf(cs) \in {"DeviceGray", "G", "DeviceRGB", "RGB", "DeviceCMYK", "CMYK"}
    \/ isName(cs) /\ cs.name = "Pattern"

\* C12: the instance ColorSpace.parse returns for a descriptor of one of the
\* forms of the name table has the name of the table; the forms without
\* parameters always yield one; and fromIR builds an instance of that name
\* from the IR alone, with no descriptor, xref or resources at hand.
C12_RoundTripName ==
    /\ (op.name = "parse" /\ ModeOf(op.cs) \in DOMAIN ExpectedName) =>
           /\ Parameterless(op.cs) => ret.err = ""
           /\ ret.err = "" => heap[ret.id].name = ExpectedName[ModeOf(op.cs)]
    /\ (op.name = "parseToIR" /\ ModeOf(op.cs) \in DOMAIN ExpectedName /\ ret.err = "") =>
           LET F == fromIR(Res(<<>>, NoSingletons), ret.ir)
           IN F.err = "" => F.heap[F.id].name = ExpectedName[ModeOf(op.cs)]

\* an [/I base hival lookup] descriptor was parsed to an Indexed instance
C12_Witness ==
    /\ op.name = "parse"
    /\ ModeOf(op.cs) = "I"
    /\ ret.err = ""
    /\ heap[ret.id].name = "Indexed"

-----------------------------------------------------------------------------
(* Properties of the calibrated spaces *)

Calibrated == {"CalGray", "CalRGB", "Lab"}

\* the WhitePoint of a CalGray, CalRGB or Lab descriptor
WhitePointOf(cs) ==
    IF Len(cs.a) >= 2 /\ isDict(cs.a[2]) THEN DictGet(cs.a[2], "WhitePoint") ELSE Undefined

\* XW >= 0, YW = 1 and ZW >= 0
ValidWhite(XW, YW, ZW) == XW # NaN /\ XW >= 0 /\ YW = FP /\ ZW # NaN /\ ZW >= 0

\* the white point of an instance
WhiteOf(obj) == IF obj.name = "CalRGB" THEN obj.whitePoint ELSE <<obj.XW, obj.YW, obj.ZW>>

\* C13: ColorSpace.parse of a CalGray, CalRGB or Lab descriptor throws a
\* FormatError when WhitePoint is missing or is not XW >= 0, YW = 1,
\* ZW >= 0, and every CalGray, CalRGB and Lab instance has XW >= 0, YW = 1 and
\* ZW >= 0.
C13_WhitePointValid ==
    /\ (op.name = "parse" /\ isArray(op.cs) /\ ModeOf(op.cs) \in Calibrated) =>
           LET wp == WhitePointOf(op.cs)
           IN (~Truthy(wp) \/ ~ValidWhite(NumEl(wp, 0), NumEl(wp, 1), NumEl(wp, 2))) =>
                  ret.err = "FormatError"
    /\ \A id \in DOMAIN heap :
           heap[id].name \in Calibrated =>
               ValidWhite(WhiteOf(heap[id])[1], WhiteOf(heap[id])[2], WhiteOf(heap[id])[3])

-----------------------------------------------------------------------------
(* Failures of the parser *)

DeviceOrPattern ==
    {"DeviceGray", "G", "DeviceRGB", "RGB", "DeviceCMYK", "CMYK", "Pattern"}

Recognised ==
    DeviceOrPattern \cup {"CalGray", "CalRGB", "ICCBased", "Indexed", "I", "Separation",
                          "DeviceN", "Lab"}

\* the entry of a name in the ColorSpace sub-dictionary of res, Undefined
\* when there is none
Looked(name, res) ==
    IF isDict(res) /\ isDict(DictGet(res, "ColorSpace"))
    THEN DictGet(DictGet(res, "ColorSpace"), name)
    ELSE Undefined

\* the descriptor after references and the resource lookup were resolved
Resolved(cs0, res) ==
    LET cs == fetchIfRef(cs0)
    IN IF isName(cs) /\ cs.name \notin DeviceOrPattern /\ Truthy(Looked(cs.name, res))
       THEN Looked(cs.name, res)
       ELSE cs

\* the mode name of an array descriptor, "" when it has none
ModeName(cs) ==
    IF Len(cs.a) >= 1 /\ isName(fetchIfRef(cs.a[1])) THEN fetchIfRef(cs.a[1]).name ELSE ""

\* parseToIR threw a FormatError and returned no IR
FormatFailure == ret.err = "FormatError" /\ Len(ret.ir) = 0

\* C14: parseToIR throws a FormatError, and returns no IR, for a name that is
\* no Device or Pattern name and has no entry in the ColorSpace resources,
\* for an array whose mode name is not a recognised mode, and for a
\* descriptor that resolves to neither a name nor an array.
C14_ParseFailures ==
    op.name = "parseToIR" =>
        LET cs == Resolved(op.cs, op.res)
        IN /\ (isName(cs) /\ cs.name \notin DeviceOrPattern /\ ~Truthy(Looked(cs.name, op.res)))
                  => FormatFailure
           /\ (isArray(cs) /\ ModeName(cs) \notin Recognised) => FormatFailure
           /\ (~isName(cs) /\ ~isArray(cs)) => FormatFailure

-----------------------------------------------------------------------------
(* Properties of the queries *)

\* C15: isPassthrough(bits) is true for DeviceRGB at 8 bits, and false for
\* every other colour space and every other bit depth.
C15_PassthroughOnlyRgb8 ==
    op.name = "isPassthrough" =>
        (ret.bool <=> (heap[op.id].name = "DeviceRGB" /\ op.bits = 8))

\* an Indexed space over DeviceRGB was asked at 8 bits and is no passthrough
C15_Witness ==
    /\ op.name = "isPassthrough"
    /\ op.bits = 8
    /\ heap[op.id].name = "Indexed"
    /\ heap[heap[op.id].base].name = "DeviceRGB"
    /\ ret.bool = FALSE

-----------------------------------------------------------------------------
(* Properties of the Indexed spaces *)

\* the palette index that a getRgbItem call on an Indexed space was given
IndexOf(src) == Rd(src, 0) \div FP

\* C16: getRgbItem([i], 0, dest, 0) on an Indexed space, for i in
\* [0, highVal), leaves dest as base.getRgbBuffer(lookup, i * base.numComps,
\* 1, dest, 0, 8, 0) leaves it, and over DeviceRGB dest holds the lookup bytes
\* 3i, 3i + 1 and 3i + 2.
C16_IndexedItem ==
    (op.name = "getRgbItem" /\ heap[op.id].name = "Indexed"
        /\ IndexOf(op.src) \in 0 .. (heap[op.id].highVal - 1)) =>
        LET cs == heap[op.id]
            i == IndexOf(op.src)
        IN /\ dest = getRgbBuffer(heap, cs.base, cs.lookup, i * NumOf(heap[cs.base].numComps),
                                  1, Mem(Fresh(3), ZeroScratch), 0, 8, 0).dest
           /\ heap[cs.base].name = "DeviceRGB" => Triple(dest, 0) = Triple(cs.lookup, 3 * i)

-----------------------------------------------------------------------------
(* The alpha byte *)

\* the pixels the last conversion was asked to produce
OutputPixels ==
    IF op.name = "getRgbBuffer" THEN op.count
    ELSE IF op.name = "fillRgb" THEN op.width * op.height
    ELSE IF op.name = "resizeRgbImage" THEN op.w2 * op.h2
    ELSE 0

\* the caller's bytes are those the buffer was handed over with
Untouched(d, offsets) == \A q \in offsets : q \in DOMAIN d => d[q] = 7

\* C17: after getRgbBuffer of any colour space, fillRgb on any of its paths and
\* resizeRgbImage, called with alpha01 = 1 and destOffset 0, the fourth byte of
\* each of the output pixels and every byte of dest beyond the 4 * count bytes
\* of the output region are as the caller left them.
C17_AlphaUntouched ==
    (op.name \in {"getRgbBuffer", "fillRgb", "resizeRgbImage"} /\ op.alpha01 = 1)
    => /\ Untouched(dest, {4 * k + 3 : k \in 0 .. (OutputPixels - 1)})
       /\ Untouched(dest, (4 * OutputPixels) .. (Length(dest) - 1))

\* fillRgb resized an image on the colour-map path into a buffer with a pixel
\* to spare, with alpha01 = 1
C17_Witness ==
    /\ op.name = "fillRgb"
    /\ op.alpha01 = 1
    /\ op.width # op.originalWidth
    /\ op.bpc = 1
    /\ op.originalWidth * op.originalHeight > 2
    /\ heap[op.id].name = "CalGray"
    /\ Length(dest) > 4 * OutputPixels
    /\ dest[0] # 7
    /\ Untouched(dest, {3})

-----------------------------------------------------------------------------
(* Nearest-neighbour resizing *)

\* floor(i * a / b) of the rational i * a / b
FloorOfQuotient(i, a, b) == (i * a) \div b

\* the offset in src of the pixel that output pixel (row i, column j) shows
SourceOffset(i, j) ==
    (FloorOfQuotient(i, op.h1, op.h2) * op.w1 + FloorOfQuotient(j, op.w1, op.w2)) * 3

\* C18: after resizeRgbImage(src, dest, w1, h1, w2, h2, alpha01) the three
\* bytes of output pixel (row i, column j) are those of the source pixel at
\* row floor(i * h1 / h2), column floor(j * w1 / w2), for every i < h2 and
\* j < w2; at w2 = w1, h2 = h1 and alpha01 = 0 dest is a copy of src.
C18_ResizeNearest ==
    op.name = "resizeRgbImage"
    => /\ \A i \in 0 .. (op.h2 - 1) : \A j \in 0 .. (op.w2 - 1) : \A c \in 0 .. 2 :
            dest[(i * op.w2 + j) * (3 + op.alpha01) + c] = op.src[SourceOffset(i, j) + c]
       /\ (op.w2 = op.w1 /\ op.h2 = op.h1 /\ op.alpha01 = 0 /\ Length(dest) = Length(op.src))
          => dest = op.src

-----------------------------------------------------------------------------
(* The stride of an Indexed space *)

\* the last call was getRgbBuffer on an Indexed space
IndexedBuffer == op.name = "getRgbBuffer" /\ heap[op.id].name = "Indexed"

\* outputDelta of IndexedCS.getRgbBuffer for the space h[id]
OutputDelta(h, id, alpha01) ==
    RatToOffset(getOutputLength(h, h[id].base, Rat(NumOf(h[h[id].base].numComps)), alpha01))

\* the k-th sample of the last call converted alone, to the head of a buffer
\* of one pixel
Alone(k) ==
    getRgbBuffer(heap, op.id, [q \in 0 .. 0 |-> op.src[k]], 0, 1,
                 Mem(Fresh(3 + op.alpha01), ZeroScratch), 0, op.bits, op.alpha01).dest

\* C19: getRgbBuffer of an Indexed space over any base advances by
\* 3 + alpha01 bytes a sample, and leaves at dest[k * (3 + alpha01) .. + 2]
\* the RGB of the k-th sample, for every k < count.
C19_IndexedStride ==
    IndexedBuffer
    => /\ OutputDelta(heap, op.id, op.alpha01) = 3 + op.alpha01
       /\ \A k \in 0 .. (op.count - 1) :
            Triple(dest, k * (3 + op.alpha01)) = Triple(Alone(k), 0)

-----------------------------------------------------------------------------
(* fillRgb to another size *)

\* the last call was fillRgb to a size that is not the original one
Resizing ==
    /\ op.name = "fillRgb"
    /\ (op.width # op.originalWidth \/ op.height # op.originalHeight)

\* the image of originalWidth * originalHeight RGB pixels that
\* getRgbBuffer(comps, 0, count, tmp, 0, bpc, 0) leaves in a new tmp
RgbOfComps ==
    LET count == op.originalWidth * op.originalHeight
    IN getRgbBuffer(heap, op.id, op.comps, 0, count,
                    Mem(NewArray(count * 3), ZeroScratch), 0, op.bpc, 0).dest

\* the last call took the colour-map path of fillRgb
OnMapPath ==
    /\ heap[op.id].numComps = 1
    /\ op.originalWidth * op.originalHeight > Pow2(op.bpc)
    /\ heap[op.id].name \notin {"DeviceGray", "DeviceRGB"}

-----------------------------------------------------------------------------
(* Optional parameters of the calibrated spaces *)

\* the first n entries of the array x as Numbers
Entries(x, n) == [i \in 1 .. n |-> NumEl(x, i - 1)]

\* the last call parsed a CalGray, CalRGB or Lab descriptor whose WhitePoint
\* is three numbers XW >= 0, YW = 1, ZW >= 0
CalibratedParse ==
    /\ op.name = "parse"
    /\ isArray(op.cs)
    /\ ModeOf(op.cs) \in Calibrated
    /\ Truthy(WhitePointOf(op.cs))
    /\ LET wp == Entries(WhitePointOf(op.cs), 3) IN ValidWhite(wp[1], wp[2], wp[3])

\* the entry key of the dictionary of the descriptor, or the default
ParamOr(key, default) ==
    LET x == DictGet(op.cs.a[2], key) IN IF Truthy(x) THEN x ELSE default

\* some entry of the tuple v is negative
Negative(v) == \E i \in DOMAIN v : Lt(v[i], 0)

\* the black point, the gamma and the range the instance is to have
ExpectedBlack ==
    LET bp == Entries(ParamOr("BlackPoint", ArrayObj(<<0, 0, 0>>)), 3)
    IN IF Negative(bp) THEN <<0, 0, 0>> ELSE bp
ExpectedG ==
    LET g == ParamOr("Gamma", NumObj(FP)).v IN IF Lt(g, FP) THEN FP ELSE g
ExpectedGamma ==
    LET gm == Entries(ParamOr("Gamma", ArrayObj(<<FP, FP, FP>>)), 3)
    IN IF Negative(gm) THEN <<FP, FP, FP>> ELSE gm
ExpectedRange ==
    LET rg == Entries(ParamOr("Range", ArrayObj(<<-100 * FP, 100 * FP, -100 * FP, 100 * FP>>)),
                      4)
    IN IF Gt(rg[1], rg[2]) \/ Gt(rg[3], rg[4])
       THEN <<-100 * FP, 100 * FP, -100 * FP, 100 * FP>>
       ELSE rg
ExpectedMatrix ==
    Entries(ParamOr("Matrix", ArrayObj(<<FP, 0, 0, 0, FP, 0, 0, 0, FP>>)), 9)

\* the black point of an instance
BlackOf(obj) == IF obj.name = "CalRGB" THEN obj.blackPoint ELSE <<obj.XB, obj.YB, obj.ZB>>

\* C21: ColorSpace.parse of a CalGray, CalRGB or Lab descriptor with a valid
\* WhitePoint returns an instance whatever its optional parameters are: a
\* BlackPoint with a negative component has become [0, 0, 0], a CalGray Gamma
\* below 1 has become 1, a CalRGB Gamma with a negative component [1, 1, 1], a
\* Lab Range with amin > amax or bmin > bmax [-100, 100, -100, 100], and the
\* white point and every parameter that is not invalid are those given.
C21_InvalidOptionalReset ==
    CalibratedParse
    => /\ ret.err = ""
       /\ ret.id \in DOMAIN heap
       /\ LET obj == heap[ret.id]
          IN /\ obj.name = ModeOf(op.cs)
             /\ WhiteOf(obj) = Entries(WhitePointOf(op.cs), 3)
             /\ BlackOf(obj) = ExpectedBlack
             /\ obj.name = "CalGray" => obj.G = ExpectedG
             /\ obj.name = "CalRGB" =>
                    /\ <<obj.GR, obj.GG, obj.GB>> = ExpectedGamma
                    /\ <<obj.MXA, obj.MYA, obj.MZA, obj.MXB, obj.MYB, obj.MZB, obj.MXC,
                          obj.MYC, obj.MZC>> = ExpectedMatrix
             /\ obj.name = "Lab" =>
                    <<obj.amin, obj.amax, obj.bmin, obj.bmax>> = ExpectedRange

\* a Lab descriptor with a black point of its own and a Range whose amin
\* exceeds amax was parsed: the range is the default one, the black point kept
C21_Witness ==
    /\ CalibratedParse
    /\ ModeOf(op.cs) = "Lab"
    /\ Gt(NumEl(ParamOr("Range", Undefined), 0), NumEl(ParamOr("Range", Undefined), 1))
    /\ ret.err = ""
    /\ heap[ret.id].amin = -100 * FP
    /\ BlackOf(heap[ret.id]) = <<10, 20, 30>>

-----------------------------------------------------------------------------
(* ICCBased descriptors with an unusable Alternate *)

\* the Alternate of cs is there, and parsing it and constructing its
\* instance, with the resources res, throws
Unusable(cs, res) ==
    /\ Truthy(ICC_Alternate(cs))
    /\ parse(Res(<<>>, NoSingletons), ICC_Alternate(cs), res).err # ""

\* C22: parseToIR of an ICCBased descriptor with N in {1, 3, 4} whose
\* Alternate cannot be parsed or constructed does not throw, and returns the
\* Device IR of N.
C22_UnusableAlternateIgnored ==
    (op.name = "parseToIR" /\ IsICCBased(op.cs) /\ ICC_N(op.cs) \in {1, 3, 4}
        /\ Unusable(op.cs, op.res)) =>
        ret.err = "" /\ ret.ir = DeviceIRFor(ICC_N(op.cs))
====
